---- MODULE Spec2Model ----
(***************************************************************************)
(* Model of the Optum eligibility proof of concept: the request pipeline   *)
(* of EligibilityService.checkEligibility, the token lifecycle of          *)
(* AuthenticationManager, the retry loop of RetryHandler and the circuit   *)
(* breakers that CircuitBreakerManager creates (opossum ^8).               *)
(*                                                                         *)
(* Node runs the program on one thread: every action below is one          *)
(* macrotask (a timer, an I/O completion, an incoming call) together with  *)
(* the synchronous code and promise continuations it triggers.  Time is    *)
(* Date.now() in milliseconds.                                             *)
(***************************************************************************)
EXTENDS Integers, Sequences, FiniteSets, TLC

(***************************************************************************)
(* Bounds of the model.                                                    *)
(***************************************************************************)
MaxTicks == 3
MaxOps == 3
MaxRedisFlips == 2
MaxRequests == 2
MaxExecutes == 1
MaxConfiguredRetries == 2
\* The codes of a request whose key is made, the entries of a parsed response
\* and the codes of the request it is parsed for.
MaxCodes == 3
MaxBenefits == 2
MaxRequested == 2

Tasks == {"t1", "t2"}
\* The task of the behaviours in which one caller at a time is served.
Sequential == {"t1"}

(***************************************************************************)
(* Breaker configuration (circuitBreaker.js).                              *)
(***************************************************************************)
AuthBreaker == "optum-auth"
EligibilityBreaker == "optum-eligibility"
Breakers == {AuthBreaker, EligibilityBreaker}

RollingCountTimeout == 10000
RollingCountBuckets == 10
BucketInterval == RollingCountTimeout \div RollingCountBuckets
\* opossum's volumeThreshold: createBreaker passes none, so it is 0.
VolumeThreshold == 0

BreakerTimeout(b) == IF b = AuthBreaker THEN 15000 ELSE 30000
ErrorThresholdPercentage(b) == IF b = AuthBreaker THEN 60 ELSE 50
ResetTimeout(b) == IF b = AuthBreaker THEN 30000 ELSE 60000

\* null and undefined, what the operations return without a response and
\* what a map gives for a key it does not hold.
Null == [null |-> TRUE]
Undefined == [undefined |-> TRUE]

(***************************************************************************)
(* CircuitBreakerManager: this.breakers and this.stats, two maps by name   *)
(* (Undefined: the map has no entry for the name).  A registered breaker   *)
(* is told by id, the count of the CircuitBreaker instances constructed    *)
(* when it was; config is the configuration it was constructed with and    *)
(* listenerStats what `stats` is in the listeners setupEventListeners gave *)
(* it.                                                                     *)
(***************************************************************************)
RedisBreaker == "redis"
\* The name of a client made with a circuitBreakerName of its own.
ClientBreaker == "client"
BreakerNames == Breakers \cup {RedisBreaker, ClientBreaker}

\* The options the callers of createBreaker pass.
Options(timeout, percentage, reset) ==
    [timeout |-> timeout, errorThresholdPercentage |-> percentage,
     resetTimeout |-> reset]

DefaultOptions == Options(30000, 50, 60000)

\* The options of the three breakers the module creates when it is loaded.
ModuleOptions(name) ==
    IF name = RedisBreaker THEN Options(5000, 70, 15000)
    ELSE Options(BreakerTimeout(name), ErrorThresholdPercentage(name),
                 ResetTimeout(name))

EmptyManager == [breakers |-> [n \in BreakerNames |-> Undefined],
                 stats |-> [n \in BreakerNames |-> Undefined],
                 constructed |-> 0]

\* { ...defaultOptions, ...options }
Config(options) ==
    [k \in DOMAIN DefaultOptions |->
        IF k \in DOMAIN options THEN options[k] ELSE DefaultOptions[k]]

\* setupEventListeners(breaker, name): `const stats = this.stats.get(name)`
\* is read once, when the listeners are made.
SetupEventListeners(m, name) == m.stats[name]

\* createBreaker without the early return for a registered name: it makes a
\* breaker and a stats record every time.
CreateBreakerReplaces(m, name, options) ==
    LET config == Config(options)
        breaker == [id |-> m.constructed + 1, config |-> config,
                    listenerStats |-> SetupEventListeners(m, name)]
    IN  [breakers |-> [m.breakers EXCEPT ![name] = breaker],
         stats |-> [m.stats EXCEPT ![name] = [config |-> config, events |-> <<>>]],
         constructed |-> m.constructed + 1]

\* createBreaker(name, options): a registered name gives the registered
\* breaker; otherwise the breaker is constructed, its listeners are set up,
\* and then the breaker and its stats record are put into the maps.
CreateBreaker(m, name, options) ==
    IF m.breakers[name] # Undefined THEN m
    ELSE LET config == Config(options)
             breaker == [id |-> m.constructed + 1, config |-> config,
                         listenerStats |-> SetupEventListeners(m, name)]
         IN  [breakers |-> [m.breakers EXCEPT ![name] = breaker],
              stats |-> [m.stats EXCEPT ![name] =
                            [config |-> config, events |-> <<>>]],
              constructed |-> m.constructed + 1]

\* The manager once circuitBreaker.js is loaded: optumAuthBreaker,
\* optumEligibilityBreaker and redisBreaker are created.
ModuleLoad ==
    CreateBreaker(
        CreateBreaker(
            CreateBreaker(EmptyManager, AuthBreaker, ModuleOptions(AuthBreaker)),
            EligibilityBreaker, ModuleOptions(EligibilityBreaker)),
        RedisBreaker, ModuleOptions(RedisBreaker))

\* The timeout axios is given for one HTTP attempt.
AxiosTimeout == 30000

(***************************************************************************)
(* RetryHandler (retryHandler.js).                                         *)
(***************************************************************************)
DefaultRetryableStatusCodes == {408, 429, 500, 502, 503, 504}
DefaultRetryableErrors == {"ECONNRESET", "ETIMEDOUT", "ENOTFOUND", "EAI_AGAIN"}

\* The constructor: options.x || default, so a 0 given for a number is
\* replaced by the default; an array given, the empty one too, is kept.
RetryHandlerNew(options) ==
    [maxRetries |-> IF options.maxRetries = 0 THEN 3 ELSE options.maxRetries,
     baseDelay |-> IF options.baseDelay = 0 THEN 1000 ELSE options.baseDelay,
     maxDelay |-> IF options.maxDelay = 0 THEN 30000 ELSE options.maxDelay,
     jitterPercent |-> IF options.jitterPercent = 0 THEN 10
                       ELSE options.jitterPercent,
     retryableStatusCodes |->
         IF "retryableStatusCodes" \in DOMAIN options
         THEN options.retryableStatusCodes ELSE DefaultRetryableStatusCodes,
     retryableErrors |->
         IF "retryableErrors" \in DOMAIN options
         THEN options.retryableErrors ELSE DefaultRetryableErrors]

defaultRetryHandler ==
    RetryHandlerNew([maxRetries |-> 3, baseDelay |-> 1000, maxDelay |-> 30000,
                     jitterPercent |-> 10])

authRetryHandler ==
    RetryHandlerNew([maxRetries |-> 2, baseDelay |-> 500, maxDelay |-> 5000,
                     jitterPercent |-> 5])

rateLimitRetryHandler ==
    RetryHandlerNew([maxRetries |-> 5, baseDelay |-> 2000, maxDelay |-> 60000,
                     jitterPercent |-> 20])

\* The handler each breaker's callers pass: refreshToken passes
\* authRetryHandler, ApiClient.createOptumClient rateLimitRetryHandler.
HandlerOf(b) == IF b = AuthBreaker THEN authRetryHandler ELSE rateLimitRetryHandler

(***************************************************************************)
(* Errors.  An error is a record: kind says where it was made, status is   *)
(* error.response.status (0: no response), code is error.code ("": none),  *)
(* request says whether error.request is set, and msgTimeout whether the   *)
(* message holds 'timeout', 'ETIMEDOUT' or 'ECONNRESET'.  The message of   *)
(* the error RetryHandler.execute throws after the last attempt ends with  *)
(* the message of that attempt's error: lastStatus and lastCode are the    *)
(* status and the code that message names (0 and "": none).                *)
(***************************************************************************)
NoError == [kind |-> "none", status |-> 0, code |-> "", request |-> FALSE,
            msgTimeout |-> FALSE, lastStatus |-> 0, lastCode |-> ""]

HttpError(s) == [NoError EXCEPT !.kind = "http", !.status = s,
                                 !.code = "ERR_BAD_RESPONSE", !.request = TRUE]

NetworkError(c) == [NoError EXCEPT !.kind = "network", !.code = c, !.request = TRUE,
                                    !.msgTimeout = c \in {"ECONNRESET", "ETIMEDOUT"}]

\* axios' own timeout: code ECONNABORTED, message 'timeout of 30000ms exceeded'.
AxiosTimeoutError == [NoError EXCEPT !.kind = "network", !.code = "ECONNABORTED",
                                      !.request = TRUE, !.msgTimeout = TRUE]

\* opossum: 'Breaker is open', code EOPENBREAKER.
BreakerOpenError == [NoError EXCEPT !.kind = "breakerOpen", !.code = "EOPENBREAKER"]

\* opossum: 'Timed out after <timeout>ms', code ETIMEDOUT.
BreakerTimeoutError == [NoError EXCEPT !.kind = "breakerTimeout", !.code = "ETIMEDOUT"]

\* An error thrown after the last attempt that names no cause.
ExhaustedErrorNoCause(last) == [NoError EXCEPT !.kind = "exhausted"]

\* RetryHandler.execute: new Error('<op> failed after <n> attempts. Last
\* error: <message>'); the message of the last error is all that is kept.
ExhaustedError(last) ==
    [NoError EXCEPT !.kind = "exhausted", !.msgTimeout = last.msgTimeout,
                    !.lastStatus = last.status,
                    !.lastCode = IF last.status = 0 THEN last.code ELSE ""]

\* A new Error(message) made by the program itself.
PlainError(k) == [NoError EXCEPT !.kind = k]

\* A classification by the configured sets alone.
IsRetryableErrorBySet(h, error) ==
    IF error.status # 0
    THEN error.status \in h.retryableStatusCodes
    ELSE IF error.code # ""
         THEN error.code \in h.retryableErrors
         ELSE error.msgTimeout

IsRetryableError(h, error) ==
    IF error.status # 0
    THEN error.status = 429 \/ error.status \in h.retryableStatusCodes
    ELSE IF error.code # ""
         THEN error.code \in h.retryableErrors
         ELSE error.msgTimeout

RECURSIVE Pow2(_)
Pow2(n) == IF n = 0 THEN 1 ELSE 2 * Pow2(n - 1)

Min(a, b) == IF a < b THEN a ELSE b

\* Math.random() as a percentage in [0, 100).
RandomPercents == {0, 50}

\* A calculateDelay that does not cap the backoff.
CalculateDelayUncapped(h, attempt, error, retryAfter, random) ==
    IF error.status = 429 /\ retryAfter # 0
    THEN Min(retryAfter * 1000, h.maxDelay)
    ELSE LET exponentialDelay == h.baseDelay * Pow2(attempt)
         IN  exponentialDelay
                + (exponentialDelay * h.jitterPercent * random) \div 10000

\* calculateDelay for a retry-after header that is absent (retryAfter = 0)
\* or a positive number of seconds.
CalculateDelay(h, attempt, error, retryAfter, random) ==
    IF error.status = 429 /\ retryAfter # 0
    THEN Min(retryAfter * 1000, h.maxDelay)
    ELSE LET exponentialDelay == h.baseDelay * Pow2(attempt)
             jitter == (exponentialDelay * h.jitterPercent * random) \div 10000
         IN  Min(exponentialDelay + jitter, h.maxDelay)

(***************************************************************************)
(* State.                                                                  *)
(***************************************************************************)
VARIABLES
    now,                \* Date.now()
    ticks,              \* how many times the clock has advanced
    ops,                \* how many operations have been started
    breakers,           \* breaker name -> opossum CircuitBreaker
    manager,            \* circuitBreakerManager: its breakers and stats maps
    pc,                 \* task -> where the task is
    op,                 \* task -> the operation it runs
    req,                \* task -> the request of its checkEligibility
    call,               \* task -> its call through a breaker (breaker.fire)
    pendingToken,       \* task -> the tokenData its last refreshToken made
    result,             \* task -> what its operation delivered
    log,                \* task -> what was done on behalf of its operation
    redisUp,            \* whether the key-value store answers
    flips,              \* how many times redisUp has changed
    authInitialized,    \* AuthenticationManager.isInitialized
    serviceInitialized, \* EligibilityService.isInitialized
    clients,            \* how many store clients createClient has made
    tokenStore,         \* the value under 'optum:access_token'
    issued,             \* how many tokens the token endpoint has issued
    cacheClient,        \* CacheService.client: "none", "ready" or "down"
    cache,              \* fingerprint -> the cached eligibility response
    cacheWrite          \* task -> the setEx its setEligibilityResponse has sent

vars == <<now, ticks, ops, breakers, manager, pc, op, req, call, pendingToken, result, log,
          redisUp, flips, authInitialized, serviceInitialized, clients,
          tokenStore, issued, cacheClient, cache, cacheWrite>>

clockVars == <<now, ticks>>
storeVars == <<redisUp, flips, tokenStore, cacheClient, cache, cacheWrite>>
initVars == <<authInitialized, serviceInitialized, clients, manager>>

(***************************************************************************)
(* opossum's rolling window (Status): RollingCountBuckets buckets, the     *)
(* first the current one; every BucketInterval ms the oldest is dropped    *)
(* and an empty one put in front.  stats sums the buckets.                 *)
(***************************************************************************)
EmptyBucket == [fires |-> 0, failures |-> 0, successes |-> 0, timeouts |-> 0,
                rejects |-> 0]

EmptyWindow == [i \in 1..RollingCountBuckets |-> EmptyBucket]

Increment(w, f) == [w EXCEPT ![1][f] = @ + 1]

\* k rotations of the window.
Rotate(w, k) ==
    IF k >= RollingCountBuckets THEN EmptyWindow
    ELSE [i \in 1..RollingCountBuckets |-> IF i <= k THEN EmptyBucket ELSE w[i - k]]

RECURSIVE SumUpTo(_, _, _)
SumUpTo(w, f, n) == IF n = 0 THEN 0 ELSE w[n][f] + SumUpTo(w, f, n - 1)

Stats(w, f) == SumUpTo(w, f, RollingCountBuckets)

(***************************************************************************)
(* opossum's CircuitBreaker: state, pendingClose, the reset timer and the  *)
(* window; listenerStats is the `stats` of the listeners the manager gave  *)
(* the breaker.  emit calls the listeners in the order they were added:    *)
(* opossum's own (the counters of the window, the start of the reset       *)
(* timer) come before the manager's.  A listener that throws ends the      *)
(* emit, and the exception leaves the function that emitted; uncaught says *)
(* that it left a timer callback or a promise reaction, from where nothing *)
(* catches it: Node (>= 22, no handler installed) ends the process.        *)
(***************************************************************************)
NoTimer == -1

NewBreaker(stats) ==
    [state |-> "closed", pendingClose |-> FALSE, resetAt |-> NoTimer,
     window |-> EmptyWindow, listenerStats |-> stats, uncaught |-> FALSE]

\* The events whose listener pushes onto stats.events.
LoggedEvents == {"open", "halfOpen", "close", "timeout", "reject", "fallback"}

\* TypeError: Cannot read properties of undefined (reading 'events').
ListenerError == PlainError("typeError")

\* Whether `stats.events.push(event)` throws: stats is undefined.
Raises(br) == br.listenerStats = Undefined

\* The manager's listener of a logged event.
Listener(br, type) ==
    IF Raises(br) THEN br
    ELSE [br EXCEPT !.listenerStats.events = Append(@, type)]

\* breaker.open(): the state is set, then 'open' is emitted, which starts
\* the reset timer and then reaches the manager's listener.
Open(b, br, t) ==
    IF br.state # "open"
    THEN Listener([br EXCEPT !.state = "open", !.pendingClose = FALSE,
                             !.resetAt = t + ResetTimeout(b)], "open")
    ELSE br

\* Whether breaker.open() throws.
OpenRaises(br) == br.state # "open" /\ Raises(br)

\* breaker.close(): clears the reset timer, sets the state, emits 'close'.
Close(br) ==
    IF br.state # "closed"
    THEN Listener([br EXCEPT !.state = "closed", !.pendingClose = FALSE,
                             !.resetAt = NoTimer], "close")
    ELSE br

\* Whether breaker.close() throws.
CloseRaises(br) == br.state # "closed" /\ Raises(br)

\* The reset timer's callback: the state is set, then 'halfOpen' is
\* emitted; what the listener throws leaves the callback.
HalfOpen(br) ==
    [Listener([br EXCEPT !.state = "halfOpen", !.pendingClose = TRUE,
                         !.resetAt = NoTimer], "halfOpen")
        EXCEPT !.uncaught = Raises(br)]

\* breaker.fire lets a call through when the breaker is closed or a
\* half-open breaker still waits for its probe.
Admits(br) == br.state = "closed" \/ br.pendingClose

\* breaker.fire up to the invocation of the action: 'fire' is counted for
\* every call, a call that is not let through is a 'reject'.
Fire(br) ==
    LET fired == [br EXCEPT !.window = Increment(@, "fires")]
    IN  IF Admits(br)
        THEN [fired EXCEPT !.pendingClose = FALSE]
        ELSE Listener([fired EXCEPT !.window = Increment(@, "rejects")], "reject")

\* What a call that is not let through fails with: 'Breaker is open', or
\* what the listener of 'reject' threw out of breaker.fire.
RejectionError(br) == IF Raises(br) THEN ListenerError ELSE BreakerOpenError

\* A success that closes the breaker whatever its state.
SucceedCloses(br) == Close([br EXCEPT !.window = Increment(@, "successes")])

\* The 'success' event: counted, and a half-open breaker closes.
Succeed(br) ==
    LET counted == [br EXCEPT !.window = Increment(@, "successes")]
    IN  IF counted.state = "halfOpen" THEN Close(counted) ELSE counted

\* Whether the emit of 'success' throws.
SucceedRaises(br) == br.state = "halfOpen" /\ CloseRaises(br)

\* Whether fail() opens the breaker: the error rate over the window is above
\* the threshold (failures / fires * 100, Infinity when fires is 0), or the
\* breaker is half-open.
Trips(b, br) ==
    /\ ~ (Stats(br.window, "fires") < VolumeThreshold /\ br.state # "halfOpen")
    /\ \/ Stats(br.window, "failures") * 100
            > ErrorThresholdPercentage(b) * Stats(br.window, "fires")
       \/ br.state = "halfOpen"

\* handleError -> fail(): the 'failure' event is counted, then the rate is
\* looked at.
Fail(b, br, t) ==
    LET counted == [br EXCEPT !.window = Increment(@, "failures")]
    IN  IF Trips(b, counted) THEN Open(b, counted, t) ELSE counted

\* Whether handleError throws before it rejects the call.
FailRaises(b, br) ==
    LET counted == [br EXCEPT !.window = Increment(@, "failures")]
    IN  Trips(b, counted) /\ OpenRaises(counted)

\* The call's timeout timer with listeners that complete: the failure is
\* counted and the call rejected with the timeout error.
TimeOutDelivers(b, br, t) ==
    [Fail(b, [br EXCEPT !.window = Increment(@, "timeouts")], t)
        EXCEPT !.uncaught = FALSE]

\* The call's timeout timer: 'timeout' is emitted, then handleError; what
\* either throws leaves the callback.
TimeOut(b, br, t) ==
    LET counted == Listener([br EXCEPT !.window = Increment(@, "timeouts")],
                            "timeout")
    IN  IF Raises(br) THEN [counted EXCEPT !.uncaught = TRUE]
        ELSE [Fail(b, counted, t) EXCEPT !.uncaught = FailRaises(b, counted)]

\* The process has ended on an exception nothing caught.
Crashed(brs) == \E b \in Breakers : brs[b].uncaught

\* Nothing runs in a process that has ended: every action needs Running.
\* The reset timer of a breaker that a failure has opened is therefore
\* never served, and neither is the timeout of an attempt still under way
\* when the timer of its call has fired.
Running == ~Crashed(breakers)

(***************************************************************************)
(* Calls.  A call through a breaker (breaker.fire) runs                     *)
(* retryHandler.execute(fn): attempts of fn, each one HTTP request, with   *)
(* backoff sleeps between them.  The breaker settles the call (delivers    *)
(* its outcome to the caller) when the retry loop ends or when the call's  *)
(* timeout timer fires, whichever is first, unless a listener's exception  *)
(* keeps it from doing so; a loop the timer has beaten keeps running, its  *)
(* outcome ignored.                                                        *)
(***************************************************************************)
NoResponse == [status |-> 0, accessToken |-> 0, expiresIn |-> 0]

Success(response) == [ok |-> TRUE, error |-> NoError, response |-> response]
Failure(error) == [ok |-> FALSE, error |-> error, response |-> NoResponse]
NoOutcome == [ok |-> FALSE, error |-> NoError, response |-> NoResponse]

\* h is the retry handler, attempt the loop's index, lastError its variable
\* of that name.  seen records the state the breaker was in when fire was
\* called, invocations how many times fn has been invoked, returned whether
\* execute has returned a result, and, while the loop sleeps, failedAt, hint
\* and delay the time of the failure, its retry-after header and the delay
\* calculateDelay gave.
NoCall == [b |-> AuthBreaker, seen |-> "none", active |-> FALSE, settled |-> FALSE,
           timeoutAt |-> NoTimer, attempt |-> 0, rphase |-> "none",
           deadline |-> NoTimer, outcome |-> NoOutcome,
           h |-> defaultRetryHandler, lastError |-> NoError, invocations |-> 0,
           returned |-> FALSE, failedAt |-> 0, hint |-> 0, delay |-> 0]

\* retryHandler.execute(fn) starts at time t: the first attempt is under way.
BeginExecute(c, h, t) ==
    [c EXCEPT !.active = TRUE, !.settled = FALSE, !.attempt = 0,
              !.rphase = "attempt", !.deadline = t + AxiosTimeout,
              !.outcome = NoOutcome, !.h = h, !.invocations = 1,
              !.returned = FALSE]

\* The call breaker.fire makes of a caller at time t: let through, its
\* timeout timer is set and the first attempt is under way; not let
\* through, it is settled with what breaker.fire rejects with or throws.
BeginCall(b, br, t) ==
    IF Admits(br)
    THEN BeginExecute([NoCall EXCEPT !.b = b, !.seen = br.state,
                                     !.timeoutAt = t + BreakerTimeout(b)],
                      HandlerOf(b), t)
    ELSE [NoCall EXCEPT !.b = b, !.seen = br.state, !.settled = TRUE,
                        !.outcome = Failure(RejectionError(br)), !.h = HandlerOf(b)]

\* The reactions opossum adds to the promise of the action,
\* promise.then(...).catch(...), at time t; out is what the promise settled
\* with.  then emits 'success' and resolves the call; what it throws goes
\* to catch, as does a rejection of the promise: handleError, which rejects
\* the call after fail().  What handleError throws leaves the reaction: the
\* call is never settled.
Handled(b, br, out, t) ==
    LET caught == IF out.ok THEN Succeed(br) ELSE br
    IN  IF out.ok /\ ~SucceedRaises(br)
        THEN [breaker |-> Succeed(br), settles |-> TRUE, outcome |-> out]
        ELSE IF FailRaises(b, caught)
        THEN [breaker |-> [Fail(b, caught, t) EXCEPT !.uncaught = TRUE],
              settles |-> FALSE, outcome |-> NoOutcome]
        ELSE [breaker |-> Fail(b, caught, t), settles |-> TRUE,
              outcome |-> IF out.ok THEN Failure(ListenerError) ELSE out]

\* The outcome of a retry loop that no breaker wraps.
Unwrapped(out) == [settles |-> TRUE, outcome |-> out]

\* The retry loop ends with outcome out, which the breaker's reactions
\* handle (s): the call settles with what they deliver unless the timeout
\* timer has settled it already; a call they leave unsettled stays so.
EndLoop(c, out, s) ==
    LET ended == [c EXCEPT !.active = FALSE, !.rphase = "none", !.deadline = NoTimer,
                           !.returned = out.ok,
                           !.failedAt = 0, !.hint = 0, !.delay = 0]
    IN  IF c.settled THEN ended
        ELSE IF ~s.settles THEN [ended EXCEPT !.timeoutAt = NoTimer]
        ELSE [ended EXCEPT !.settled = TRUE, !.timeoutAt = NoTimer,
                           !.outcome = s.outcome]

\* A breaker that counts as a failure every call whose loop has met an
\* error.
EndLoopBreakerCountsErrors(b, br, c, out, t) ==
    IF c.settled THEN br
    ELSE IF out.ok /\ c.lastError = NoError THEN Succeed(br) ELSE Fail(b, br, t)

\* What the end of the loop does to the breaker: nothing once the timeout
\* timer has fired (timeoutError is set).
EndLoopBreaker(b, br, c, out, t) ==
    IF c.settled THEN br ELSE Handled(b, br, out, t).breaker

\* What one attempt (one HTTP request) may come back with: a reply is an
\* outcome and the retry-after header of a failure (seconds, 0: none).
Reply(out, retryAfter) == [out |-> out, retryAfter |-> retryAfter]

ExpiresInValues == {0, 120, 3600}

TokenReplies(n) ==
    {Reply(Success([status |-> 200, accessToken |-> n, expiresIn |-> e]), 0) :
        e \in ExpiresInValues}
    \cup {Reply(Success([status |-> 200, accessToken |-> 0, expiresIn |-> 3600]), 0),
          Reply(Success([status |-> 204, accessToken |-> 0, expiresIn |-> 0]), 0),
          Reply(Failure(HttpError(401)), 0)}

EligibilityReplies ==
    {Reply(Success([status |-> 200, accessToken |-> 0, expiresIn |-> 0]), 0),
     Reply(Failure(HttpError(400)), 0)}

\* What the task has done on behalf of its operation.
\* calledWith is what the caller passed to an operation of CacheService or
\* of the parser: the request's serviceTypeCodes as they came, or the
\* upstream's response.  alongside is how many calls of other tasks to the
\* token endpoint were under way when the operation's refreshToken began.
EmptyLog == [startedAt |-> 0, tokenPosts |-> 0, upstreamPosts |-> 0,
             acquisitions |-> 0, connects |-> 0, storeReads |-> 0, storeWrites |-> 0,
             calledWith |-> <<>>, alongside |-> 0]

\* The log of an operation that starts at time t.
StartLog(t) == [EmptyLog EXCEPT !.startedAt = t]

\* One more HTTP request through breaker b.
LogPost(l, b) ==
    IF b = AuthBreaker THEN [l EXCEPT !.tokenPosts = @ + 1]
    ELSE [l EXCEPT !.upstreamPosts = @ + 1]

WaitingPcs == {"post_wait", "refresh_wait", "elig_wait", "exec_wait"}

\* A promise continuation is ready: it runs before any timer or I/O event.
Pending == \E t \in Tasks : pc[t] \in WaitingPcs /\ call[t].settled

\* The backoff sleeps under way.
Sleepers == {t \in Tasks : call[t].active /\ call[t].rphase = "sleep"}

Deadlines ==
    {breakers[b].resetAt : b \in {x \in Breakers : breakers[x].resetAt # NoTimer}}
    \cup {call[t].timeoutAt : t \in {x \in Tasks : /\ call[x].active /\ ~call[x].settled
                                                   /\ call[x].timeoutAt # NoTimer}}
    \cup {call[t].deadline : t \in {x \in Tasks : call[x].active}}

Due == \E d \in Deadlines : d <= now

NextDeadline == CHOOSE d \in Deadlines : \A e \in Deadlines : d <= e

(***************************************************************************)
(* The events of a call.                                                   *)
(***************************************************************************)
\* The HTTP request of the current attempt comes back with reply r.
AttemptReturns(t, r) ==
    LET error == r.out.error
        c == IF r.out.ok THEN call[t] ELSE [call[t] EXCEPT !.lastError = error]
        h == c.h
        last == c.attempt = h.maxRetries
        ends == r.out.ok \/ last \/ ~IsRetryableError(h, error)
        out == IF r.out.ok THEN r.out
               ELSE IF last THEN Failure(ExhaustedError(c.lastError))
               ELSE r.out
    IN  /\ Running
        /\ ~Pending
        /\ c.active /\ c.rphase = "attempt"
        /\ IF ends
           THEN /\ call' = [call EXCEPT ![t] =
                              EndLoop(c, out,
                                      IF c.b \in Breakers
                                      THEN Handled(c.b, breakers[c.b], out, now)
                                      ELSE Unwrapped(out))]
                /\ breakers' = IF c.b \in Breakers
                               THEN [breakers EXCEPT
                                       ![c.b] = EndLoopBreaker(c.b, @, c, out, now)]
                               ELSE breakers
           ELSE /\ \E random \in RandomPercents :
                     LET delay == CalculateDelay(h, c.attempt, error, r.retryAfter,
                                                 random)
                     IN  call' = [call EXCEPT ![t] =
                                    [c EXCEPT !.rphase = "sleep",
                                              !.deadline = now + delay,
                                              !.failedAt = now,
                                              !.hint = r.retryAfter,
                                              !.delay = delay]]
                /\ UNCHANGED breakers
        /\ issued' = IF r.out.ok /\ r.out.response.accessToken # 0
                     THEN issued + 1 ELSE issued
        /\ UNCHANGED <<clockVars, storeVars, initVars, ops, pc, op, req,
                       pendingToken, result, log>>

\* The server or the network answers, with one of the replies R, before
\* axios gives up.
AttemptAnswered(t, R) ==
    /\ now < call[t].deadline
    /\ \E r \in R : AttemptReturns(t, r)

\* axios gives the attempt up after AxiosTimeout.
AttemptTimesOut(t) ==
    /\ now >= call[t].deadline
    /\ AttemptReturns(t, Reply(Failure(AxiosTimeoutError), 0))

\* The backoff sleep is over: the next attempt starts.
Wake(t) ==
    LET c == call[t]
    IN  /\ Running
        /\ ~Pending
        /\ c.active /\ c.rphase = "sleep" /\ now >= c.deadline
        /\ call' = [call EXCEPT ![t].rphase = "attempt", ![t].attempt = @ + 1,
                                ![t].deadline = now + AxiosTimeout,
                                ![t].invocations = @ + 1,
                                ![t].failedAt = 0, ![t].hint = 0, ![t].delay = 0]
        /\ log' = [log EXCEPT ![t] = LogPost(@, c.b)]
        /\ UNCHANGED <<clockVars, storeVars, initVars, ops, breakers, pc, op, req,
                       pendingToken, result, issued>>

\* The call's timeout timer fires before the retry loop has ended.
CallTimesOut(t) ==
    LET c == call[t]
    IN  /\ Running
        /\ ~Pending
        /\ c.active /\ ~c.settled /\ c.timeoutAt # NoTimer /\ now >= c.timeoutAt
        /\ breakers' = [breakers EXCEPT ![c.b] = TimeOut(c.b, @, now)]
        /\ call' = IF breakers'[c.b].uncaught
                   THEN [call EXCEPT ![t].timeoutAt = NoTimer]
                   ELSE [call EXCEPT ![t].settled = TRUE, ![t].timeoutAt = NoTimer,
                                     ![t].outcome = Failure(BreakerTimeoutError)]
        /\ UNCHANGED <<clockVars, storeVars, initVars, ops, pc, op, req,
                       pendingToken, result, log, issued>>

\* A breaker's reset timer fires.
ResetTimerFires(b) ==
    /\ Running
    /\ ~Pending
    /\ breakers[b].resetAt # NoTimer /\ now >= breakers[b].resetAt
    /\ breakers' = [breakers EXCEPT ![b] = HalfOpen(@)]
    /\ UNCHANGED <<clockVars, storeVars, initVars, ops, pc, op, req, call,
                   pendingToken, result, log, issued>>

\* Time passes, by d ms and not beyond the next timer; the windows rotate.
\* The advances are counted but for those that end a backoff sleep, of
\* which a call has at most maxRetries.
Advance(d) ==
    LET wakes == \E t \in Sleepers : call[t].deadline = now + d
    IN
    /\ Running
    /\ ~Pending /\ ~Due
    /\ wakes \/ ticks < MaxTicks
    /\ d > 0
    /\ Deadlines # {} => now + d <= NextDeadline
    /\ now' = now + d
    /\ ticks' = IF wakes THEN ticks ELSE ticks + 1
    /\ breakers' = [b \in Breakers |->
                      [breakers[b] EXCEPT !.window =
                          Rotate(@, (now + d) \div BucketInterval
                                      - now \div BucketInterval)]]
    /\ UNCHANGED <<storeVars, initVars, ops, pc, op, req, call, pendingToken,
                   result, log, issued>>

\* The clock runs to the next timer.
AdvanceToTimer ==
    /\ Deadlines # {}
    /\ Advance(NextDeadline - now)

\* The key-value store goes down or comes back; a client the CacheService
\* has made gets 'end' or 'ready', which sets isConnected.
RedisFlips ==
    /\ Running
    /\ ~Pending
    /\ flips < MaxRedisFlips
    /\ flips' = flips + 1
    /\ redisUp' = ~redisUp
    /\ cacheClient' = IF cacheClient = "none" THEN "none"
                      ELSE IF redisUp THEN "down" ELSE "ready"
    /\ UNCHANGED <<clockVars, initVars, ops, breakers, pc, op, req, call,
                   pendingToken, result, log, tokenStore, issued, cache,
                   cacheWrite>>

(***************************************************************************)
(* Operations.  result is what the operation delivered to its caller.      *)
(***************************************************************************)
NoResult == [ok |-> FALSE, error |-> NoError, value |-> 0]
Returned(v) == [ok |-> TRUE, error |-> NoError, value |-> v]
Thrown(error) == [ok |-> FALSE, error |-> error, value |-> 0]

\* A task can take a new operation when it runs none and no retry loop of
\* an earlier one is still going.
Free(t) == pc[t] \in {"idle", "done"} /\ ~call[t].active

\* Tasks are interchangeable: the second is taken only while the first is
\* busy.
Takes(t) == Free(t) /\ (t = "t2" => ~Free("t1"))

\* What one step of a task does to the task and to the breakers.
Step(p, res, c, brs, l) ==
    [pc |-> p, result |-> res, call |-> c, breakers |-> brs, log |-> l]

Apply(t, s) ==
    /\ pc' = [pc EXCEPT ![t] = s.pc]
    /\ result' = [result EXCEPT ![t] = s.result]
    /\ call' = [call EXCEPT ![t] = s.call]
    /\ breakers' = s.breakers
    /\ log' = [log EXCEPT ![t] = s.log]

\* The operation of task t ends.
Finish(t, res, l) == Step("done", res, call[t], breakers, l)

\* breaker.fire by task t, which then waits at pc p for the outcome.
FireStep(t, b, p, l) ==
    Step(p, NoResult, BeginCall(b, breakers[b], now),
         [breakers EXCEPT ![b] = Fire(@)],
         IF Admits(breakers[b]) THEN LogPost(l, b) ELSE l)

\* CircuitBreakerManager.execute's catch: a rejection by the breaker is
\* rethrown as 'Service <name> is currently unavailable (circuit breaker
\* open)', any other error as it is.
ExecuteError(error) ==
    IF error.kind = "breakerOpen" THEN PlainError("circuitOpen") ELSE error

\* ApiClient.post / get with a circuitBreakerName: the request goes through
\* circuitBreakerManager.execute.
StartPost(t, b) ==
    /\ Running
    /\ ~Pending
    /\ Takes(t) /\ ops < MaxOps
    /\ ops' = ops + 1
    /\ op' = [op EXCEPT ![t] = "post"]
    /\ Apply(t, FireStep(t, b, "post_wait", StartLog(now)))
    /\ UNCHANGED <<clockVars, storeVars, initVars, req, pendingToken, issued>>

\* The caller of post gets the call's outcome.
PostResume(t) ==
    /\ Running
    /\ pc[t] = "post_wait" /\ call[t].settled
    /\ Apply(t, Finish(t, IF call[t].outcome.ok THEN Returned(0)
                          ELSE Thrown(ExecuteError(call[t].outcome.error)),
                       log[t]))
    /\ UNCHANGED <<clockVars, storeVars, initVars, ops, op, req, pendingToken,
                   issued>>

\* ApiClient.post of a client without a circuitBreakerName, whose retry
\* handler is h: the request goes through this.retryHandler.execute.
StartExecute(t, h) ==
    /\ Running
    /\ ~Pending
    /\ Takes(t) /\ ops < MaxExecutes
    /\ ops' = ops + 1
    /\ op' = [op EXCEPT ![t] = "execute"]
    /\ Apply(t, Step("exec_wait", NoResult,
                      BeginExecute([NoCall EXCEPT !.b = "none"], h, now),
                      breakers, LogPost(StartLog(now), "none")))
    /\ UNCHANGED <<clockVars, storeVars, initVars, req, pendingToken, issued>>

\* The caller of post gets what execute returned or threw.
ExecuteResume(t) ==
    /\ Running
    /\ pc[t] = "exec_wait" /\ call[t].settled
    /\ Apply(t, Finish(t, IF call[t].outcome.ok THEN Returned(call[t].outcome.response.status)
                          ELSE Thrown(call[t].outcome.error),
                       log[t]))
    /\ UNCHANGED <<clockVars, storeVars, initVars, ops, op, req, pendingToken,
                   issued>>

\* CircuitBreakerManager.openBreaker / closeBreaker.
OpenBreaker(b) ==
    /\ Running
    /\ ~Pending
    /\ breakers' = [breakers EXCEPT ![b] = Open(b, @, now)]
    /\ UNCHANGED <<clockVars, storeVars, initVars, ops, pc, op, req, call,
                   pendingToken, result, log, issued>>

CloseBreaker(b) ==
    /\ Running
    /\ ~Pending
    /\ breakers' = [breakers EXCEPT ![b] = Close(@)]
    /\ UNCHANGED <<clockVars, storeVars, initVars, ops, pc, op, req, call,
                   pendingToken, result, log, issued>>

(***************************************************************************)
(* AuthenticationManager.  tokenData is (token, expiresAt), times in ms;   *)
(* the store holds under 'optum:access_token' a tokenData and the time its *)
(* TTL runs out.                                                           *)
(***************************************************************************)
NoToken == [present |-> FALSE, token |-> 0, expiresAt |-> 0]

EmptyStore == [data |-> NoToken, ttlUntil |-> 0]

\* What refreshToken hands to cacheToken: tokenData and the TTL in ms;
\* written records whether the store took it.
NoPending == [data |-> NoToken, ttl |-> 0, written |-> FALSE]

TokenRefreshBuffer == 5 * 60 * 1000

DefaultExpiresIn == 3600

\* What redisClient.get(tokenKey) gives at time t: the value while its TTL
\* runs, null (NoToken) afterwards.
StoredToken(store, t) ==
    IF store.data.present /\ t < store.ttlUntil THEN store.data ELSE NoToken

\* An isTokenExpiring that compares with < where the code has <=.
IsTokenExpiringStrict(tokenData, t) ==
    \/ ~tokenData.present
    \/ tokenData.expiresAt = 0
    \/ tokenData.expiresAt - t < TokenRefreshBuffer

\* isTokenExpiring.
IsTokenExpiring(tokenData, t) ==
    \/ ~tokenData.present
    \/ tokenData.expiresAt = 0
    \/ tokenData.expiresAt - t <= TokenRefreshBuffer

\* A lifetime taken as the server reports it, none being 0.
ExpiresInAsReported(response) == response.expiresIn

\* expires_in || 3600.
ExpiresIn(response) ==
    IF response.expiresIn = 0 THEN DefaultExpiresIn ELSE response.expiresIn

\* The tokenData refreshToken makes of a response at time t.
TokenData(response, t) ==
    [present |-> TRUE, token |-> response.accessToken,
     expiresAt |-> t + ExpiresIn(response) * 1000]

\* A setEx that is handed the TTL in ms where seconds are expected of it.
CacheTokenShortTtl(pending, t) ==
    [data |-> pending.data, ttlUntil |-> t + pending.ttl \div 1000]

\* A write that leaves a token the store holds where it is.
CacheTokenFirstWins(pending, t) ==
    IF StoredToken(tokenStore, t).present THEN tokenStore
    ELSE [data |-> pending.data, ttlUntil |-> t + pending.ttl]

\* cacheToken's setEx at time t.
CacheToken(pending, t) == [data |-> pending.data, ttlUntil |-> t + pending.ttl]

\* refreshToken's catch: an error with a response becomes 'Optum
\* authentication failed: ...', one with a request 'Network error during
\* authentication', any other is rethrown.
RefreshError(error) ==
    IF error.status # 0 THEN PlainError("authFailed")
    ELSE IF error.request THEN PlainError("authNetwork")
    ELSE error

\* checkEligibility's catch: the statuses 401, 400, 429 and >= 500 of an
\* error with a response become errors of its own, any other error is
\* rethrown.
CheckEligibilityError(error) ==
    IF error.status = 401 THEN PlainError("upstream401")
    ELSE IF error.status = 400 THEN PlainError("upstream400")
    ELSE IF error.status = 429 THEN PlainError("upstream429")
    ELSE IF error.status >= 500 THEN PlainError("upstream5xx")
    ELSE error

\* redisClient.connect() rejects.
ConnectError == NetworkError("ECONNREFUSED")

\* getAccessToken has returned or thrown (res): the operation getAccessToken
\* ends; checkEligibility sets the token on the client and posts the request
\* through the eligibility breaker, or, on an error, runs its catch.
AfterToken(t, res, l) ==
    IF op[t] = "getAccessToken" THEN Finish(t, res, l)
    ELSE IF res.ok THEN FireStep(t, EligibilityBreaker, "elig_wait", l)
    ELSE Finish(t, Thrown(CheckEligibilityError(res.error)), l)

\* getAccessToken from 'const cachedToken = await this.getCachedToken()':
\* the read of the store is under way.
ReadToken(t, l) ==
    Step("token_read", NoResult, call[t], breakers, [l EXCEPT !.storeReads = @ + 1])

\* The operation getAccessToken is called; not initialized, it creates a
\* client and connects.
StartGetAccessToken(t) ==
    /\ Running
    /\ ~Pending
    /\ Takes(t) /\ ops < MaxOps
    /\ ops' = ops + 1
    /\ op' = [op EXCEPT ![t] = "getAccessToken"]
    /\ IF authInitialized
       THEN /\ Apply(t, ReadToken(t, StartLog(now)))
            /\ UNCHANGED clients
       ELSE /\ Apply(t, Step("init_wait", NoResult, call[t], breakers,
                             [StartLog(now) EXCEPT !.connects = 1]))
            /\ clients' = clients + 1
    /\ UNCHANGED <<clockVars, storeVars, authInitialized, serviceInitialized, manager, req,
                   pendingToken, issued>>

\* initialize's connect comes back: connected, the manager is initialized
\* and getAccessToken goes on to read the store; refused, initialize throws
\* and so does getAccessToken.
AuthInitDone(t) ==
    /\ Running
    /\ ~Pending
    /\ pc[t] = "init_wait" /\ op[t] = "getAccessToken"
    /\ IF redisUp
       THEN /\ authInitialized' = TRUE
            /\ Apply(t, ReadToken(t, log[t]))
       ELSE /\ UNCHANGED authInitialized
            /\ Apply(t, Finish(t, Thrown(ConnectError), log[t]))
    /\ UNCHANGED <<clockVars, storeVars, serviceInitialized, clients, manager, ops, op, req,
                   pendingToken, issued>>

\* getCachedToken's read comes back: a token that is not expiring is
\* returned; without one, or when the read failed, refreshToken calls the
\* token endpoint through the auth breaker.
TokenRead(t) ==
    LET cached == IF redisUp THEN StoredToken(tokenStore, now) ELSE NoToken
        others == {u \in Tasks \ {t} : /\ call[u].b = AuthBreaker
                                       /\ call[u].active /\ ~call[u].settled}
    IN  /\ Running
        /\ ~Pending
        /\ pc[t] = "token_read"
        /\ IF cached.present /\ ~IsTokenExpiring(cached, now)
           THEN Apply(t, AfterToken(t, Returned(cached.token), log[t]))
           ELSE Apply(t, FireStep(t, AuthBreaker, "refresh_wait",
                                  [log[t] EXCEPT !.acquisitions = @ + 1,
                                                 !.alongside = Cardinality(others)]))
        /\ UNCHANGED <<clockVars, storeVars, initVars, ops, op, req, pendingToken,
                       issued>>

\* refreshToken after 'await optumAuthBreaker.fire(...)'.
RefreshResume(t) ==
    LET out == call[t].outcome
        error == IF ~out.ok THEN RefreshError(out.error)
                 ELSE IF out.response.status # 200 THEN PlainError("authStatus")
                 ELSE PlainError("noAccessToken")
        stores == out.ok /\ out.response.status = 200 /\ out.response.accessToken # 0
    IN  /\ Running
        /\ pc[t] = "refresh_wait" /\ call[t].settled
        /\ IF stores
           THEN /\ Apply(t, Step("token_write", NoResult, call[t], breakers, log[t]))
                /\ pendingToken' = [pendingToken EXCEPT ![t] =
                        [data |-> TokenData(out.response, now),
                         ttl |-> ExpiresIn(out.response) * 1000,
                         written |-> FALSE]]
           ELSE /\ Apply(t, AfterToken(t, Thrown(error), log[t]))
                /\ UNCHANGED pendingToken
        /\ UNCHANGED <<clockVars, storeVars, initVars, ops, op, req, issued>>

\* A cacheToken that rethrows what setEx throws: with the store down
\* refreshToken fails.
TokenWriteThrows(t) ==
    /\ Running
    /\ ~Pending
    /\ pc[t] = "token_write"
    /\ tokenStore' = IF redisUp THEN CacheToken(pendingToken[t], now) ELSE tokenStore
    /\ pendingToken' = [pendingToken EXCEPT ![t].written = redisUp]
    /\ Apply(t, AfterToken(t, IF redisUp THEN Returned(pendingToken[t].data.token)
                               ELSE Thrown(ConnectError),
                           [log[t] EXCEPT !.storeWrites = @ + 1]))
    /\ UNCHANGED <<clockVars, initVars, ops, op, req, issued, redisUp, flips,
                   cacheClient, cache, cacheWrite>>

\* cacheToken's setEx comes back: the token is stored with its TTL, or the
\* write failed, which cacheToken swallows; refreshToken returns the token.
TokenWrite(t) ==
    /\ Running
    /\ ~Pending
    /\ pc[t] = "token_write"
    /\ tokenStore' = IF redisUp THEN CacheToken(pendingToken[t], now) ELSE tokenStore
    /\ pendingToken' = [pendingToken EXCEPT ![t].written = redisUp]
    /\ Apply(t, AfterToken(t, Returned(pendingToken[t].data.token),
                           [log[t] EXCEPT !.storeWrites = @ + 1]))
    /\ UNCHANGED <<clockVars, initVars, ops, op, req, issued, redisUp, flips,
                   cacheClient, cache, cacheWrite>>

(***************************************************************************)
(* Requests.  A string is a sequence of characters, the empty sequence     *)
(* also standing for an absent field (both are falsy); an object has the   *)
(* flag present.  serviceTypeCodes is absent, an array of codes or a       *)
(* string.                                                                 *)
(***************************************************************************)
Digit == {"0", "1", "2", "3", "4", "5", "6", "7", "8", "9"}

Rep(c, n) == [i \in 1..n |-> c]

\* /^\d{n}$/.test(s)
IsDigits(s, n) == Len(s) = n /\ \A i \in 1..Len(s) : s[i] \in Digit

Truthy(s) == s # <<>>

Codes(kind, items) == [kind |-> kind, items |-> items]

\* Array.isArray(codes); a string is truthy when not empty, an array always.
IsArray(codes) == codes.kind = "array"
TruthyCodes(codes) ==
    \/ codes.kind = "array"
    \/ codes.kind = "string" /\ codes.items # <<>>

ValidRequest ==
    [present |-> TRUE,
     controlNumber |-> Rep("1", 9),
     tradingPartnerServiceId |-> <<"O">>,
     provider |-> [present |-> TRUE, organizationName |-> <<"p">>,
                   npi |-> Rep("2", 10), serviceProviderNumber |-> <<"5">>,
                   providerCode |-> <<"A", "D">>],
     subscriber |-> [present |-> TRUE, memberId |-> <<"m">>, firstName |-> <<"f">>,
                     lastName |-> <<"l">>, gender |-> <<"M">>,
                     dateOfBirth |-> Rep("3", 8)],
     encounter |-> [present |-> TRUE, beginningDateOfService |-> Rep("4", 8),
                    endDateOfService |-> Rep("4", 8),
                    serviceTypeCodes |-> Codes("array", <<"30">>)]]

\* checkEligibility(null)
NullRequest == [ValidRequest EXCEPT !.present = FALSE]

\* The keys of docs/serviceTypes.json that getCommonServiceTypes names, and
\* the properties every object inherits from Object.prototype.
ServiceTypes == {"1", "30", "33", "35", "47", "86", "88", "98", "AL", "MH", "UC"}
ObjectPrototypeKeys ==
    {"constructor", "toString", "valueOf", "hasOwnProperty", "isPrototypeOf",
     "propertyIsEnumerable", "toLocaleString", "__proto__"}

\* isValidCode: code in this.serviceTypes.
IsValidCode(code) == code \in ServiceTypes \cup ObjectPrototypeKeys

\* validateCodes(request.encounter?.serviceTypeCodes || []).isValid
ValidateCodes(r) ==
    LET codes == IF r.encounter.present /\ TruthyCodes(r.encounter.serviceTypeCodes)
                 THEN r.encounter.serviceTypeCodes
                 ELSE Codes("array", <<>>)
    IN  /\ IsArray(codes)
        /\ \A i \in 1..Len(codes.items) : IsValidCode(codes.items[i])

\* validateRequest(request).errors, as a set.  The requests carry no
\* dependents, whose checks are left out.
ValidateRequest(r) ==
    IF ~r.present THEN {"Request is required"}
    ELSE
      {e \in {"controlNumber is required"} : ~Truthy(r.controlNumber)}
      \cup {e \in {"tradingPartnerServiceId is required"} :
              ~Truthy(r.tradingPartnerServiceId)}
      \cup {e \in {"provider is required"} : ~r.provider.present}
      \cup {e \in {"subscriber is required"} : ~r.subscriber.present}
      \cup {e \in {"encounter is required"} : ~r.encounter.present}
      \cup {e \in {"controlNumber must be exactly 9 digits"} :
              Truthy(r.controlNumber) /\ ~IsDigits(r.controlNumber, 9)}
      \cup (IF ~r.provider.present THEN {} ELSE
              {e \in {"provider.organizationName is required"} :
                 ~Truthy(r.provider.organizationName)}
              \cup {e \in {"provider.npi is required"} : ~Truthy(r.provider.npi)}
              \cup {e \in {"provider.serviceProviderNumber is required"} :
                      ~Truthy(r.provider.serviceProviderNumber)}
              \cup {e \in {"provider.providerCode is required"} :
                      ~Truthy(r.provider.providerCode)}
              \cup {e \in {"provider.npi must be exactly 10 digits"} :
                      Truthy(r.provider.npi) /\ ~IsDigits(r.provider.npi, 10)})
      \cup (IF ~r.subscriber.present THEN {} ELSE
              {e \in {"subscriber.memberId is required"} :
                 ~Truthy(r.subscriber.memberId)}
              \cup {e \in {"subscriber.firstName is required"} :
                      ~Truthy(r.subscriber.firstName)}
              \cup {e \in {"subscriber.lastName is required"} :
                      ~Truthy(r.subscriber.lastName)}
              \cup {e \in {"subscriber.gender is required"} :
                      ~Truthy(r.subscriber.gender)}
              \cup {e \in {"subscriber.dateOfBirth is required"} :
                      ~Truthy(r.subscriber.dateOfBirth)}
              \cup {e \in {"subscriber.gender must be M or F"} :
                      /\ Truthy(r.subscriber.gender)
                      /\ r.subscriber.gender \notin {<<"M">>, <<"F">>}}
              \cup {e \in {"subscriber.dateOfBirth must be in YYYYMMDD format"} :
                      /\ Truthy(r.subscriber.dateOfBirth)
                      /\ ~IsDigits(r.subscriber.dateOfBirth, 8)})
      \cup (IF ~r.encounter.present THEN {} ELSE
              {e \in {"encounter.beginningDateOfService is required"} :
                 ~Truthy(r.encounter.beginningDateOfService)}
              \cup {e \in {"encounter.endDateOfService is required"} :
                      ~Truthy(r.encounter.endDateOfService)}
              \cup {e \in {"encounter.serviceTypeCodes is required"} :
                      ~TruthyCodes(r.encounter.serviceTypeCodes)}
              \cup {e \in {"encounter.beginningDateOfService must be in YYYYMMDD format"} :
                      /\ Truthy(r.encounter.beginningDateOfService)
                      /\ ~IsDigits(r.encounter.beginningDateOfService, 8)}
              \cup {e \in {"encounter.endDateOfService must be in YYYYMMDD format"} :
                      /\ Truthy(r.encounter.endDateOfService)
                      /\ ~IsDigits(r.encounter.endDateOfService, 8)}
              \cup {e \in {"encounter.serviceTypeCodes must be an array"} :
                      /\ TruthyCodes(r.encounter.serviceTypeCodes)
                      /\ ~IsArray(r.encounter.serviceTypeCodes)}
              \cup {e \in {"encounter.serviceTypeCodes must contain at least one code"} :
                      /\ IsArray(r.encounter.serviceTypeCodes)
                      /\ Len(r.encounter.serviceTypeCodes.items) = 0})

\* The requests made of the service: the valid one, one with two codes,
\* and one per way of being wrong.
Requests ==
    {ValidRequest,
     [ValidRequest EXCEPT !.encounter.serviceTypeCodes = Codes("array", <<"98", "30">>)],
     NullRequest,
     [ValidRequest EXCEPT !.tradingPartnerServiceId = <<>>],
     [ValidRequest EXCEPT !.subscriber.present = FALSE],
     [ValidRequest EXCEPT !.controlNumber = Rep("1", 8)],
     [ValidRequest EXCEPT !.controlNumber = Rep("1", 8) \o <<"a">>],
     [ValidRequest EXCEPT !.provider.npi = Rep("2", 11)],
     [ValidRequest EXCEPT !.subscriber.gender = <<"X">>],
     [ValidRequest EXCEPT !.subscriber.dateOfBirth = Rep("3", 7)],
     [ValidRequest EXCEPT !.encounter.endDateOfService = Rep("4", 8) \o <<"0">>],
     [ValidRequest EXCEPT !.encounter.serviceTypeCodes = Codes("array", <<>>)],
     [ValidRequest EXCEPT !.encounter.serviceTypeCodes = Codes("string", <<"30">>)],
     [ValidRequest EXCEPT !.encounter.serviceTypeCodes = Codes("array", <<"ZZ">>)],
     [ValidRequest EXCEPT !.encounter.serviceTypeCodes = Codes("array", <<"30", "constructor">>)]}

(***************************************************************************)
(* CacheService.  The key of a request is made of memberId, npi, the       *)
(* sorted serviceTypeCodes and beginningDateOfService; an entry is the     *)
(* cached response and the time its TTL runs out.                          *)
(***************************************************************************)
DefaultTTL == 300

\* The order of the codes as Array.prototype.sort puts them: by UTF-16 code
\* units.
CodeRank(code) ==
    CASE code = "1" -> 1 [] code = "30" -> 2 [] code = "33" -> 3 [] code = "35" -> 4
      [] code = "47" -> 5 [] code = "86" -> 6 [] code = "88" -> 7 [] code = "98" -> 8
      [] code = "AL" -> 9 [] code = "MH" -> 10 [] code = "UC" -> 11 [] code = "ZZ" -> 12
      [] OTHER -> 13

RECURSIVE Insert(_, _)
Insert(sorted, code) ==
    IF sorted = <<>> THEN <<code>>
    ELSE IF CodeRank(code) < CodeRank(Head(sorted)) THEN <<code>> \o sorted
    ELSE <<Head(sorted)>> \o Insert(Tail(sorted), code)

RECURSIVE Sort(_)
Sort(codes) == IF codes = <<>> THEN <<>> ELSE Insert(Sort(Tail(codes)), Head(codes))

\* A keyData whose serviceTypes are the codes as they come.
GenerateEligibilityKeyUnsorted(r) ==
    <<r.subscriber.memberId, r.provider.npi,
      r.encounter.serviceTypeCodes.items, r.encounter.beginningDateOfService>>

\* A keyData that also holds the request's tradingPartnerServiceId.
GenerateEligibilityKeyWithPartner(r) ==
    <<r.subscriber.memberId, r.provider.npi,
      Sort(r.encounter.serviceTypeCodes.items), r.encounter.beginningDateOfService,
      r.tradingPartnerServiceId>>

\* generateEligibilityKey's keyData.
GenerateEligibilityKey(r) ==
    <<r.subscriber.memberId, r.provider.npi,
      Sort(r.encounter.serviceTypeCodes.items), r.encounter.beginningDateOfService>>

\* The request r with a dependents array.
WithDependents(r, d) ==
    [k \in DOMAIN r \cup {"dependents"} |-> IF k = "dependents" THEN d ELSE r[k]]

\* Requests for the codes 98 and 30 that differ in the fields the key does
\* not read, in the order of the codes, and requests for the code 30, once
\* and twice.
TwoCodes == [ValidRequest EXCEPT !.encounter.serviceTypeCodes = Codes("array", <<"98", "30">>)]
FingerprintRequests ==
    {TwoCodes,
     [TwoCodes EXCEPT !.tradingPartnerServiceId = <<"P">>,
                      !.controlNumber = Rep("9", 9)],
     WithDependents(
        [TwoCodes EXCEPT !.encounter.serviceTypeCodes = Codes("array", <<"30", "98">>),
                         !.encounter.endDateOfService = Rep("5", 8),
                         !.subscriber.firstName = <<"g">>,
                         !.subscriber.lastName = <<"k">>,
                         !.subscriber.dateOfBirth = Rep("6", 8)],
        <<"d">>),
     ValidRequest,
     [ValidRequest EXCEPT !.encounter.serviceTypeCodes = Codes("array", <<"30", "30">>)]}

CacheKeys == {GenerateEligibilityKey(r) : r \in Requests \cup FingerprintRequests}

\* An entry of the store: the response and cachedAt of the cacheData that
\* was written, whether the value is the JSON setEligibilityResponse writes,
\* and the time the TTL runs out.
NoEntry == [present |-> FALSE, value |-> 0, ttlUntil |-> 0, cachedAt |-> 0,
            json |-> FALSE]

\* What the upstream's answer is parsed to, and a response cached earlier.
UpstreamResponse == 1
CachedResponse == 2

\* CacheService.initialize: a client is made and connects; 'ready' sets
\* isConnected.
CacheInitialize ==
    /\ Running
    /\ ~Pending
    /\ cacheClient # "ready"
    /\ cacheClient' = IF redisUp THEN "ready" ELSE "down"
    /\ UNCHANGED <<clockVars, initVars, ops, breakers, pc, op, req, call,
                   pendingToken, result, log, redisUp, flips, tokenStore, issued,
                   cache, cacheWrite>>

\* CacheService.setEligibilityResponse(r, response): connected, the
\* response is stored under the request's key with the default TTL.
SetEligibilityResponse(r) ==
    /\ ~Pending
    /\ cacheClient = "ready" /\ redisUp
    /\ r.present /\ r.encounter.serviceTypeCodes.kind = "array"
    /\ cache' = [cache EXCEPT ![GenerateEligibilityKey(r)] =
                    [present |-> TRUE, value |-> CachedResponse,
                     ttlUntil |-> now + DefaultTTL * 1000, cachedAt |-> now,
                     json |-> TRUE]]
    /\ UNCHANGED <<clockVars, initVars, ops, breakers, pc, op, req, call,
                   pendingToken, result, log, redisUp, flips, tokenStore, issued,
                   cacheClient, cacheWrite>>

\* setEligibilityResponse's ttl argument: null when the caller passes none,
\* or a number of seconds.
NoTtl == [supplied |-> FALSE, seconds |-> 0]
Ttl(n) == [supplied |-> TRUE, seconds |-> n]

\* 'ttl || this.defaultTTL': null and 0 are falsy.
TtlSeconds(ttl) == IF ttl.supplied /\ ttl.seconds # 0 THEN ttl.seconds ELSE DefaultTTL

\* The setEx a setEligibilityResponse has sent: the key, the response and
\* cachedAt of its cacheData, the TTL, the ttl argument it was computed
\* from, whether the store took the write and when.
NoWrite == [key |-> <<>>, value |-> 0, cachedAt |-> 0, ttlSeconds |-> 0,
            ttl |-> NoTtl, written |-> FALSE, writtenAt |-> 0]

\* generateEligibilityKey throws a TypeError: the request is null, or its
\* serviceTypeCodes is a string, which has no sort.
KeyThrows(r) == ~r.present \/ r.encounter.serviceTypeCodes.kind = "string"

\* The request after generateEligibilityKey: Array.prototype.sort has put
\* the array request.encounter.serviceTypeCodes in order in place.
SortInPlace(r) == [r EXCEPT !.encounter.serviceTypeCodes.items = Sort(@)]

\* generateEligibilityKey(r) is called: it returns the key, the request's
\* serviceTypeCodes sorted on the way, or throws the TypeError.
GenerateEligibilityKeyCall(t, r) ==
    LET l == [StartLog(now) EXCEPT !.calledWith = r.encounter.serviceTypeCodes.items]
    IN  /\ Running
        /\ ~Pending
        /\ Free(t) /\ ops < MaxOps
        /\ ops' = ops + 1
        /\ op' = [op EXCEPT ![t] = "generateEligibilityKey"]
        /\ IF KeyThrows(r)
           THEN /\ Apply(t, Finish(t, Thrown(PlainError("typeError")), l))
                /\ req' = [req EXCEPT ![t] = r]
           ELSE /\ Apply(t, Finish(t, Returned(GenerateEligibilityKey(r)), l))
                /\ req' = [req EXCEPT ![t] = SortInPlace(r)]
        /\ UNCHANGED <<clockVars, storeVars, initVars, pendingToken, issued>>

\* getCacheAge(cachedAt) at time t: whole seconds, minutes or hours.
GetCacheAge(cachedAt, t) ==
    LET ageSeconds == (t - cachedAt) \div 1000
    IN  IF ageSeconds < 60 THEN <<ageSeconds, "s">>
        ELSE IF ageSeconds < 3600 THEN <<ageSeconds \div 60, "m">>
        ELSE <<ageSeconds \div 3600, "h">>

\* What the store holds under an entry's key at time t: the entry until
\* its TTL has run out.
StoredValue(entry, t) == IF entry.present /\ t < entry.ttlUntil THEN entry ELSE NoEntry

\* The cached data with its cacheMetadata.
Hit(k, entry, t) ==
    [null |-> FALSE, response |-> entry.value, cachedAt |-> entry.cachedAt,
     cacheMetadata |-> [hit |-> TRUE, key |-> k, cachedAt |-> entry.cachedAt,
                        age |-> GetCacheAge(entry.cachedAt, t)]]

\* A JSON.parse outside the try.
GetResultParseThrows(up, k, entry, t) ==
    IF ~up \/ ~entry.present THEN Returned(Null)
    ELSE IF ~entry.json THEN Thrown(PlainError("syntaxError"))
    ELSE Returned(Hit(k, entry, t))

\* getEligibilityResponse from 'await this.client.get(key)' on: the read
\* rejected (the store is down) or the value not JSON, the catch returns
\* null; no value, null; else the parsed data with cacheMetadata.
GetResult(up, k, entry, t) ==
    IF ~up \/ ~entry.present THEN Returned(Null)
    ELSE IF ~entry.json THEN Returned(Null)
    ELSE Returned(Hit(k, entry, t))

\* getEligibilityResponse(r) is called: not connected it returns null, and
\* so it does when the key cannot be made; else the key is made and the
\* read sent.
StartGetEligibilityResponse(t, r) ==
    LET l == [StartLog(now) EXCEPT !.calledWith = r.encounter.serviceTypeCodes.items]
    IN  /\ Running
        /\ ~Pending
        /\ Takes(t) /\ ops < MaxOps
        /\ ops' = ops + 1
        /\ op' = [op EXCEPT ![t] = "getEligibilityResponse"]
        /\ IF cacheClient # "ready" \/ KeyThrows(r)
           THEN /\ Apply(t, Finish(t, Returned(Null), l))
                /\ req' = [req EXCEPT ![t] = r]
           ELSE /\ Apply(t, Step("cache_read", NoResult, call[t], breakers,
                                 [l EXCEPT !.storeReads = 1]))
                /\ req' = [req EXCEPT ![t] = SortInPlace(r)]
        /\ UNCHANGED <<clockVars, storeVars, initVars, pendingToken, issued>>

\* The read of getEligibilityResponse comes back.
GetEligibilityResponseDone(t) ==
    LET k == GenerateEligibilityKey(req[t])
    IN  /\ Running
        /\ ~Pending
        /\ pc[t] = "cache_read"
        /\ Apply(t, Finish(t, GetResult(redisUp, k, StoredValue(cache[k], now), now),
                           log[t]))
        /\ UNCHANGED <<clockVars, storeVars, initVars, ops, op, req, pendingToken,
                       issued>>

\* setEligibilityResponse(r, response, correlationId, ttl) is called: not
\* connected it returns, and so it does when the key cannot be made; else
\* the key and the cacheData are made and the setEx sent.
StartSetEligibilityResponse(t, r, response, ttl) ==
    LET l == [StartLog(now) EXCEPT !.calledWith = r.encounter.serviceTypeCodes.items]
    IN  /\ Running
        /\ ~Pending
        /\ Takes(t) /\ ops < MaxOps
        /\ ops' = ops + 1
        /\ op' = [op EXCEPT ![t] = "setEligibilityResponse"]
        /\ IF cacheClient # "ready" \/ KeyThrows(r)
           THEN /\ Apply(t, Finish(t, Returned(Undefined), l))
                /\ req' = [req EXCEPT ![t] = r]
                /\ cacheWrite' = [cacheWrite EXCEPT ![t] = NoWrite]
           ELSE /\ Apply(t, Step("cache_write", NoResult, call[t], breakers,
                                 [l EXCEPT !.storeWrites = 1]))
                /\ req' = [req EXCEPT ![t] = SortInPlace(r)]
                /\ cacheWrite' = [cacheWrite EXCEPT ![t] =
                        [key |-> GenerateEligibilityKey(r), value |-> response,
                         cachedAt |-> now, ttlSeconds |-> TtlSeconds(ttl),
                         ttl |-> ttl, written |-> FALSE, writtenAt |-> 0]]
        /\ UNCHANGED <<clockVars, initVars, pendingToken, issued, redisUp, flips,
                       tokenStore, cacheClient, cache>>

\* The setEx of setEligibilityResponse comes back: the store has replaced
\* the value under the key, or, down, rejected, which the catch swallows.
SetEligibilityResponseDone(t) ==
    LET w == cacheWrite[t]
    IN  /\ Running
        /\ ~Pending
        /\ pc[t] = "cache_write"
        /\ cache' = IF redisUp
                    THEN [cache EXCEPT ![w.key] =
                            [present |-> TRUE, value |-> w.value,
                             ttlUntil |-> now + w.ttlSeconds * 1000,
                             cachedAt |-> w.cachedAt, json |-> TRUE]]
                    ELSE cache
        /\ cacheWrite' = [cacheWrite EXCEPT ![t].written = redisUp,
                                            ![t].writtenAt = now]
        /\ Apply(t, Finish(t, Returned(Undefined), log[t]))
        /\ UNCHANGED <<clockVars, initVars, ops, op, req, pendingToken, issued,
                       redisUp, flips, tokenStore, cacheClient>>

\* Another client of the shared store puts under key k a value that is not
\* JSON.
ForeignWrite(k) ==
    /\ Running
    /\ ~Pending
    /\ redisUp /\ StoredValue(cache[k], now).json
    /\ cache' = [cache EXCEPT ![k] =
                    [present |-> TRUE, value |-> 0, ttlUntil |-> @.ttlUntil,
                     cachedAt |-> 0, json |-> FALSE]]
    /\ UNCHANGED <<clockVars, initVars, ops, breakers, pc, op, req, call,
                   pendingToken, result, log, redisUp, flips, tokenStore, issued,
                   cacheClient, cacheWrite>>

(***************************************************************************)
(* EligibilityService.checkEligibility.                                    *)
(***************************************************************************)
\* A try block that asks for the token before it validates.
AfterInitTokenFirst(t, r, l) == ReadToken(t, l)

\* checkEligibility from its try block: the request is validated, then the
\* codes; a valid request goes on to getAccessToken, whose read of the
\* store gets under way.
AfterInit(t, r, l) ==
    IF ValidateRequest(r) # {} THEN Finish(t, Thrown(PlainError("validation")), l)
    ELSE IF ~ValidateCodes(r) THEN Finish(t, Thrown(PlainError("serviceTypeCodes")), l)
    ELSE ReadToken(t, l)

\* checkEligibility(request) is called.  Not initialized, the service
\* initializes the token manager, which creates a client and connects.
StartCheckEligibility(t, r) ==
    /\ Running
    /\ ~Pending
    /\ Takes(t) /\ ops < MaxRequests
    /\ ops' = ops + 1
    /\ op' = [op EXCEPT ![t] = "checkEligibility"]
    /\ req' = [req EXCEPT ![t] = r]
    /\ IF serviceInitialized
       THEN /\ Apply(t, AfterInit(t, r, StartLog(now)))
            /\ UNCHANGED initVars
       ELSE IF authInitialized
       THEN /\ Apply(t, AfterInit(t, r, StartLog(now)))
            /\ serviceInitialized' = TRUE
            /\ UNCHANGED <<authInitialized, clients>>
       ELSE /\ Apply(t, Step("init_wait", NoResult, call[t], breakers,
                             [StartLog(now) EXCEPT !.connects = 1]))
            /\ clients' = clients + 1
            /\ UNCHANGED <<authInitialized, serviceInitialized>>
    /\ UNCHANGED <<clockVars, storeVars, manager, pendingToken, issued>>

\* The connect of the service's initialize comes back: connected, both are
\* initialized and checkEligibility goes on; refused, initialize throws and
\* so does checkEligibility.
ServiceInitDone(t) ==
    /\ Running
    /\ ~Pending
    /\ pc[t] = "init_wait" /\ op[t] = "checkEligibility"
    /\ IF redisUp
       THEN /\ authInitialized' = TRUE
            /\ serviceInitialized' = TRUE
            /\ Apply(t, AfterInit(t, req[t], log[t]))
       ELSE /\ UNCHANGED <<authInitialized, serviceInitialized>>
            /\ Apply(t, Finish(t, Thrown(ConnectError), log[t]))
    /\ UNCHANGED <<clockVars, storeVars, clients, manager, ops, op, req, pendingToken, issued>>

\* checkEligibility after 'await this.apiClient.post(...)': the response is
\* parsed and returned; an error goes through execute's catch and then
\* checkEligibility's.
EligibilityResume(t) ==
    /\ Running
    /\ pc[t] = "elig_wait" /\ call[t].settled
    /\ Apply(t, Finish(t, IF call[t].outcome.ok THEN Returned(UpstreamResponse)
                          ELSE Thrown(CheckEligibilityError(
                                         ExecuteError(call[t].outcome.error))),
                       log[t]))
    /\ UNCHANGED <<clockVars, storeVars, initVars, ops, op, req, pendingToken,
                   issued>>

(***************************************************************************)
(* EligibilityController.checkEligibility: what the HTTP caller gets of a  *)
(* failed checkEligibility, the status code and error.message.             *)
(***************************************************************************)
\* The status code the catch picks by the words of the message: 'validation
\* failed' or 'Invalid service type', 'authentication' or 'unauthorized',
\* 'rate limit' or '429', in that order.  The message of the error of
\* exhausted retries starts with the operation's name, 'Optum
\* authentication' for the call through the auth breaker, and ends with
\* the last error's message, which names its status.
RouteStatusCode(error, b) ==
    IF error.kind \in {"validation", "serviceTypeCodes"} THEN 400
    ELSE IF error.kind \in {"authFailed", "authNetwork"} THEN 401
    ELSE IF error.kind = "exhausted" /\ b = AuthBreaker THEN 401
    ELSE IF 429 \in {error.lastStatus, error.status} THEN 429
    ELSE 500

\* error.message, by what it tells: the kind of the error and the status
\* it names.
Message(error) ==
    [kind |-> error.kind,
     status |-> IF error.kind = "exhausted" THEN error.lastStatus ELSE error.status]

\* The response to the request of task t, whose checkEligibility threw.
RouteResponse(t) ==
    [statusCode |-> RouteStatusCode(result[t].error, call[t].b),
     error |-> Message(result[t].error)]

(***************************************************************************)
(* Initial state: the process has started, nothing has been requested.     *)
(***************************************************************************)
Init ==
    /\ now = 0 /\ ticks = 0 /\ ops = 0
    /\ manager = ModuleLoad
    /\ breakers = [b \in Breakers |->
                     NewBreaker(ModuleLoad.breakers[b].listenerStats)]
    /\ pc = [t \in Tasks |-> "idle"]
    /\ op = [t \in Tasks |-> "none"]
    /\ req = [t \in Tasks |-> NullRequest]
    /\ call = [t \in Tasks |-> NoCall]
    /\ pendingToken = [t \in Tasks |-> NoPending]
    /\ result = [t \in Tasks |-> NoResult]
    /\ log = [t \in Tasks |-> EmptyLog]
    /\ redisUp = TRUE /\ flips = 0
    /\ authInitialized = FALSE /\ serviceInitialized = FALSE /\ clients = 0
    /\ tokenStore = EmptyStore /\ issued = 0
    /\ cacheClient = "none" /\ cache = [k \in CacheKeys |-> NoEntry]
    /\ cacheWrite = [t \in Tasks |-> NoWrite]

(***************************************************************************)
(* The breaker under requests, time and the manual hooks: requests go      *)
(* through ApiClient.post to the eligibility endpoint.                     *)
(***************************************************************************)
BreakerSteps == {5000}
PostBreakers == {EligibilityBreaker}

NextBreaker ==
    \/ \E t \in Tasks, b \in PostBreakers : StartPost(t, b)
    \/ \E t \in Tasks : PostResume(t)
    \/ \E t \in Tasks : AttemptAnswered(t, EligibilityReplies)
    \/ \E t \in Tasks : AttemptTimesOut(t)
    \/ \E t \in Tasks : CallTimesOut(t)
    \/ \E b \in Breakers : ResetTimerFires(b)
    \/ \E b \in PostBreakers : OpenBreaker(b)
    \/ \E b \in PostBreakers : CloseBreaker(b)
    \/ \E d \in BreakerSteps : Advance(d)
    \/ AdvanceToTimer

SpecBreaker == Init /\ [][NextBreaker]_vars

\* The calls through breaker b that are let through and not yet settled.
InFlight(b) == {t \in Tasks : call[t].b = b /\ call[t].active /\ ~call[t].settled}

\* Task t has called fire, and the breaker was in state s.
Fired(t, s) == pc[t] # "idle" /\ call[t].seen = s

\* The call of task t was rejected by the breaker without an attempt.
Rejected(t) ==
    /\ ~call[t].active /\ call[t].settled
    /\ call[t].outcome = Failure(BreakerOpenError)
    /\ call[t].attempt = 0
    /\ call[t].b = EligibilityBreaker => log[t].upstreamPosts = 0
    /\ call[t].b = AuthBreaker => log[t].tokenPosts = 0

\* C4: a call made through a breaker that is Open is settled at once with
\* opossum's 'Breaker is open' error, no attempt of the wrapped request is
\* made, and post's caller gets the circuit-breaker-open error of execute.
C4_OpenBreakerRejects ==
    \A t \in Tasks :
        Fired(t, "open") =>
            /\ Rejected(t)
            /\ (op[t] = "post" /\ pc[t] = "done") =>
                   result[t] = Thrown(PlainError("circuitOpen"))

\* A post through a breaker that is open, its reset timer not yet fired,
\* has made no attempt and has ended with the TypeError of the manager's
\* 'reject' listener.
C4_Witness ==
    \E t \in Tasks :
        /\ Fired(t, "open") /\ op[t] = "post" /\ pc[t] = "done"
        /\ call[t].attempt = 0 /\ log[t].upstreamPosts = 0
        /\ result[t] = Thrown(ListenerError)
        /\ breakers[call[t].b].state = "open"
        /\ now < breakers[call[t].b].resetAt

\* The number of calls the claim's scenario needs before the breaker may
\* open: the error threshold of the configuration.
MinimumSample == 5

\* A failure has opened breaker b in this step.
Tripped(b) ==
    /\ breakers[b].state = "closed" /\ breakers'[b].state = "open"
    /\ breakers'[b].window # breakers[b].window

\* C5: a failure opens a Closed breaker only when the window holds at least
\* the minimum sample of calls and the failure percentage is above
\* errorThresholdPercentage.
C5_TripsOnlyAboveMinimumSample ==
    [][\A b \in Breakers :
          Tripped(b) =>
              /\ Stats(breakers'[b].window, "fires") >= MinimumSample
              /\ Stats(breakers'[b].window, "failures") * 100
                    > ErrorThresholdPercentage(b) * Stats(breakers'[b].window, "fires")]_vars

\* The first call through the breaker has failed and the breaker is open.
C5_Witness ==
    \E b \in Breakers :
        /\ breakers[b].state = "open"
        /\ Stats(breakers[b].window, "fires") = 1
        /\ Stats(breakers[b].window, "failures") = 1

\* The outcome of the probe: the call of t through a half-open breaker
\* settles in this step.
ProbeSettles(t) ==
    /\ call[t].seen = "halfOpen" /\ call[t].active /\ ~call[t].settled
    /\ call'[t].settled
    /\ breakers[call[t].b].state = "halfOpen"

\* C6: a HalfOpen breaker serves calls: it lets exactly one call through,
\* the probe, and rejects every other call; when the probe succeeds the
\* breaker is Closed, when it fails or times out the breaker is Open with a
\* new reset timer.
C6_HalfOpenOneProbe ==
    /\ [](\A b \in Breakers : breakers[b].state = "halfOpen" => Running)
    /\ [](\A b \in Breakers :
            breakers[b].state = "halfOpen" =>
                /\ Cardinality(InFlight(b)) = (IF breakers[b].pendingClose THEN 0 ELSE 1)
                /\ \A t \in InFlight(b) : call[t].seen = "halfOpen")
    /\ [](\A t \in Tasks :
            Fired(t, "halfOpen") /\ call[t].outcome = Failure(BreakerOpenError)
                => Rejected(t))
    /\ [][\A t \in Tasks :
            ProbeSettles(t) =>
                IF call'[t].outcome.ok
                THEN breakers'[call[t].b].state = "closed"
                ELSE /\ breakers'[call[t].b].state = "open"
                     /\ breakers'[call[t].b].resetAt
                            = now + ResetTimeout(call[t].b)]_vars

\* The reset timer of a breaker has fired: the breaker is half-open, waits
\* for its probe, and the TypeError of the manager's 'halfOpen' listener
\* has left the timer's callback.
C6_Witness ==
    \E b \in Breakers :
        /\ breakers[b].state = "halfOpen" /\ breakers[b].pendingClose
        /\ breakers[b].uncaught

Transition(b) == <<breakers[b].state, breakers'[b].state>>

LegalTransitions ==
    {<<"closed", "open">>, <<"open", "halfOpen">>, <<"halfOpen", "closed">>,
     <<"halfOpen", "open">>}

\* C7 as stated: every change of a breaker's state is Closed->Open,
\* Open->HalfOpen, HalfOpen->Closed or HalfOpen->Open.
C7_OnlyLegalTransitions ==
    [][\A b \in Breakers :
          breakers'[b].state # breakers[b].state
              => Transition(b) \in LegalTransitions]_vars

\* C7: every change of a breaker's state is one of the four, or Open->Closed,
\* which is made by closeBreaker alone: it clears the reset timer and counts
\* nothing in the window.
C7_TransitionsWithManualClose ==
    [][\A b \in Breakers :
          breakers'[b].state # breakers[b].state
              => \/ Transition(b) \in LegalTransitions
                 \/ /\ Transition(b) = <<"open", "closed">>
                    /\ breakers'[b] = Close(breakers[b])]_vars

\* closeBreaker has closed a breaker that a failure had opened, before its
\* reset timer fired: the window still holds the failure.
C7_Witness ==
    \E b \in Breakers :
        /\ breakers[b].state = "closed"
        /\ Stats(breakers[b].window, "failures") > 0
        /\ Stats(breakers[b].window, "successes") = 0

(***************************************************************************)
(* The token manager under one caller's getAccessToken calls, one after    *)
(* the other, with time passing and a store that goes down and comes back. *)
(***************************************************************************)
AuthSteps == {1000, 3299000}

NextAuth ==
    \/ \E t \in Sequential : StartGetAccessToken(t)
    \/ \E t \in Sequential : AuthInitDone(t)
    \/ \E t \in Sequential : TokenRead(t)
    \/ \E t \in Sequential : RefreshResume(t)
    \/ \E t \in Sequential : TokenWrite(t)
    \/ \E t \in Sequential : AttemptAnswered(t, TokenReplies(issued + 1))
    \/ \E t \in Sequential : CallTimesOut(t)
    \/ RedisFlips
    \/ \E d \in AuthSteps : Advance(d)
    \/ AdvanceToTimer

SpecAuth == Init /\ [][NextAuth]_vars

(***************************************************************************)
(* The token manager under concurrent getAccessToken calls; time runs from *)
(* timer to timer.                                                         *)
(***************************************************************************)
NextAuthConcurrent ==
    \/ \E t \in Tasks : StartGetAccessToken(t)
    \/ \E t \in Tasks : AuthInitDone(t)
    \/ \E t \in Tasks : TokenRead(t)
    \/ \E t \in Tasks : RefreshResume(t)
    \/ \E t \in Tasks : TokenWrite(t)
    \/ \E t \in Tasks : AttemptAnswered(t, TokenReplies(issued + 1))
    \/ \E t \in Tasks : CallTimesOut(t)
    \/ AdvanceToTimer

SpecAuthConcurrent == Init /\ [][NextAuthConcurrent]_vars

\* Task t's read of the token store comes back in this step.
ReadsToken(t) == pc[t] = "token_read" /\ pc'[t] # "token_read"

\* The read has made getAccessToken return the token v without an
\* acquisition.
HitWith(t, v) ==
    /\ pc'[t] = "done" /\ result'[t] = Returned(v)
    /\ log'[t].acquisitions = 0 /\ log'[t].tokenPosts = 0

\* The read has made getAccessToken call refreshToken.
Acquires(t) ==
    /\ pc'[t] = "refresh_wait" /\ log'[t].acquisitions = 1
    /\ call'[t].b = AuthBreaker

\* The store holds at time t a token that is not within the refresh buffer
\* of its expiry.
HoldsFresh(store, t) ==
    /\ StoredToken(store, t).present
    /\ t < StoredToken(store, t).expiresAt - TokenRefreshBuffer

\* C8 as stated: getAccessToken returns the stored token without an
\* acquisition exactly when the store holds a token with
\* now < expiresAt - refreshBuffer, and acquires otherwise.
C8_HitIffStoreHoldsFresh ==
    [][\A t \in Tasks :
          ReadsToken(t) =>
              IF HoldsFresh(tokenStore, now)
              THEN HitWith(t, tokenStore.data.token)
              ELSE Acquires(t)]_vars

\* C8: once connected, getAccessToken returns the stored token without an
\* acquisition exactly when its read of the store succeeds and gives a token
\* with now < expiresAt - refreshBuffer; in every other case, a failed read
\* included, it acquires, and the token it then returns is not the stored
\* one.
C8_HitIffReadGivesFresh ==
    /\ [][\A t \in Tasks :
            ReadsToken(t) =>
                IF redisUp /\ HoldsFresh(tokenStore, now)
                THEN HitWith(t, tokenStore.data.token)
                ELSE Acquires(t)]_vars
    /\ [][\A t \in Tasks :
            (pc[t] = "token_write" /\ pc'[t] = "done" /\ tokenStore.data.present)
                => /\ result'[t].ok
                   /\ result'[t].value # tokenStore.data.token]_vars
    /\ [](\A t \in Tasks :
            (pc[t] = "done" /\ op[t] = "getAccessToken" /\ result[t].ok)
                => IF log[t].acquisitions = 0 THEN log[t].tokenPosts = 0
                   ELSE log[t].acquisitions = 1 /\ log[t].tokenPosts >= 1)

\* A call has returned the stored token, without an acquisition, 1000 ms
\* before the token enters the refresh buffer.
C8_Witness ==
    \E t \in Tasks :
        /\ pc[t] = "done" /\ op[t] = "getAccessToken"
        /\ result[t] = Returned(tokenStore.data.token)
        /\ log[t].acquisitions = 0
        /\ tokenStore.data.present
        /\ now = tokenStore.data.expiresAt - TokenRefreshBuffer - 1000

\* The token the caller's earlier call obtained.
Obtained(t) == pendingToken[t].data

\* Task t's read comes back in this step, an earlier call of t having
\* obtained a token that the store took.
ReadsAfterObtaining(t) ==
    ReadsToken(t) /\ Obtained(t).present /\ pendingToken[t].written

\* C9 as stated: a call made while the token obtained by the caller's
\* earlier call is unexpired makes no acquisition, the store answering; a
\* call made after it has expired makes exactly one.
C9_OneAcquisitionWhileUnexpired ==
    [][\A t \in Tasks :
          ReadsAfterObtaining(t) =>
              IF now < Obtained(t).expiresAt
              THEN redisUp => log'[t].acquisitions = 0
              ELSE Acquires(t)]_vars

\* C9: the store having taken the token the caller's earlier call obtained,
\* a call made while that token is more than the refresh buffer from its
\* expiry makes no acquisition and returns it, when the store answers the
\* read; a call made within the buffer of the expiry or after it, or whose
\* read fails, makes exactly one acquisition.
C9_OneAcquisitionOutsideBuffer ==
    /\ [][\A t \in Tasks :
            ReadsAfterObtaining(t) =>
                IF redisUp /\ now < Obtained(t).expiresAt - TokenRefreshBuffer
                THEN HitWith(t, Obtained(t).token)
                ELSE Acquires(t)]_vars
    /\ [](\A t \in Tasks : log[t].acquisitions <= 1)

\* A second call has returned the token the first obtained, some time after
\* the first.
C9_Witness ==
    \E t \in Tasks :
        /\ pc[t] = "done" /\ op[t] = "getAccessToken"
        /\ Obtained(t).present /\ pendingToken[t].written
        /\ result[t] = Returned(Obtained(t).token)
        /\ log[t].acquisitions = 0
        /\ now > Obtained(t).expiresAt - pendingToken[t].ttl

\* Task t's getAccessToken has ended after an acquisition that did not
\* succeed: the call through the auth breaker gave no 200 response with an
\* access token.
AcquisitionFailed(t) ==
    /\ pc[t] = "done" /\ op[t] = "getAccessToken" /\ log[t].acquisitions = 1
    /\ ~ /\ call[t].outcome.ok
         /\ call[t].outcome.response.status = 200
         /\ call[t].outcome.response.accessToken # 0

\* getAccessToken has thrown, has written nothing to the store, and what it
\* has thrown is opossum's 'Breaker is open' exactly when the breaker is in
\* the set of states rejecting and has rejected the call.
FailsClassified(t, rejecting) ==
    /\ ~result[t].ok /\ result[t].error # NoError
    /\ log[t].storeWrites = 0
    /\ result[t].error = BreakerOpenError <=> call[t].seen \in rejecting
    /\ call[t].seen \in rejecting => Rejected(t)

\* C10: an acquisition that does not succeed makes getAccessToken fail, so
\* the process runs on while a getAccessToken waits for its acquisition;
\* the failed getAccessToken has left the store alone, and its error is the
\* breaker's rejection when the auth breaker was Open, the token endpoint
\* not called, and an error of another kind in every other case.
C10_UnavailableIffOpen ==
    /\ \A t \in Tasks : pc[t] = "refresh_wait" => Running
    /\ \A t \in Tasks : AcquisitionFailed(t) => FailsClassified(t, {"open"})

\* The token endpoint has refused the credentials (401), the failure has
\* opened the auth breaker, the TypeError of the 'open' listener was left
\* uncaught, and getAccessToken has neither returned nor thrown.
C10_Witness ==
    \E t \in Tasks :
        /\ pc[t] = "refresh_wait" /\ op[t] = "getAccessToken"
        /\ log[t].acquisitions = 1 /\ log[t].tokenPosts = 1
        /\ call[t].lastError = HttpError(401)
        /\ ~call[t].active /\ ~call[t].settled /\ result[t] = NoResult
        /\ breakers[AuthBreaker].state = "open" /\ breakers[AuthBreaker].uncaught

\* The acquisition of t's getAccessToken has got a token from the endpoint.
AcquiredToken(t) ==
    /\ op[t] = "getAccessToken" /\ log[t].acquisitions = 1
    /\ pc[t] \in {"token_write", "done"}
    /\ call[t].outcome.ok /\ call[t].outcome.response.status = 200
    /\ call[t].outcome.response.accessToken # 0

\* Task t's write of its token to the store comes back in this step.
WritesToken(t) == pc[t] = "token_write" /\ pc'[t] # "token_write"

\* C29: refreshes are not serialized.  A getAccessToken whose read gives no
\* fresh token acquires, whatever acquisitions of other callers are under
\* way; every caller whose acquisition gets a token receives that token;
\* and every write the store takes replaces what the store held, so that
\* the store holds one token, the one written last.
C29_RefreshesNotSerialized ==
    /\ [][\A t \in Tasks :
            (ReadsToken(t) /\ ~(redisUp /\ HoldsFresh(tokenStore, now))) => Acquires(t)]_vars
    /\ [](\A t \in Tasks :
            (AcquiredToken(t) /\ pc[t] = "done") =>
                result[t] = Returned(call[t].outcome.response.accessToken))
    /\ [][\A t \in Tasks :
            (WritesToken(t) /\ redisUp) =>
                /\ tokenStore'.data = pendingToken[t].data
                /\ tokenStore'.ttlUntil = now + pendingToken[t].ttl]_vars

\* Two callers have read an empty store, the second acquisition began while
\* the first was under way, each caller has received its own token and the
\* store holds the second's.
C29_Witness ==
    /\ AcquiredToken("t1") /\ AcquiredToken("t2")
    /\ pc["t1"] = "done" /\ pc["t2"] = "done"
    /\ log["t1"].alongside = 0 /\ log["t2"].alongside = 1
    /\ result["t1"].ok /\ result["t2"].ok
    /\ result["t1"].value # result["t2"].value
    /\ pendingToken["t1"].written /\ pendingToken["t2"].written
    /\ tokenStore.data.token = result["t2"].value

(***************************************************************************)
(* The service under one caller's checkEligibility requests, with the      *)
(* CacheService's operations and a store that goes down and comes back;   *)
(* time runs from timer to timer.                                          *)
(***************************************************************************)
\* The requests whose responses are put in the cache.
CachedRequests == {ValidRequest}

\* What the endpoint the call of t goes to may answer.
RepliesTo(t) ==
    IF call[t].b = AuthBreaker THEN TokenReplies(issued + 1) ELSE EligibilityReplies

NextEligibility ==
    \/ \E t \in Sequential, r \in Requests : StartCheckEligibility(t, r)
    \/ \E t \in Sequential : ServiceInitDone(t)
    \/ \E t \in Sequential : TokenRead(t)
    \/ \E t \in Sequential : RefreshResume(t)
    \/ \E t \in Sequential : TokenWrite(t)
    \/ \E t \in Sequential : EligibilityResume(t)
    \/ \E t \in Sequential : AttemptAnswered(t, RepliesTo(t))
    \/ \E t \in Sequential : AttemptTimesOut(t)
    \/ \E t \in Sequential : CallTimesOut(t)
    \/ CacheInitialize
    \/ \E r \in CachedRequests : SetEligibilityResponse(r)
    \/ RedisFlips
    \/ AdvanceToTimer

SpecEligibility == Init /\ [][NextEligibility]_vars

\* The request breaks a validation rule: a required field is missing, the
\* control number is not 9 digits, the NPI not 10 digits, the gender not M
\* or F, a date not 8 digits, the service-type list empty or not an array,
\* or a code outside the known set.
ViolatesRule(r) ==
    \/ ~r.present
    \/ ~r.provider.present \/ ~r.subscriber.present \/ ~r.encounter.present
    \/ \E f \in {r.controlNumber, r.tradingPartnerServiceId,
                 r.provider.organizationName, r.provider.npi,
                 r.provider.serviceProviderNumber, r.provider.providerCode,
                 r.subscriber.memberId, r.subscriber.firstName,
                 r.subscriber.lastName, r.subscriber.gender,
                 r.subscriber.dateOfBirth, r.encounter.beginningDateOfService,
                 r.encounter.endDateOfService} : f = <<>>
    \/ ~IsDigits(r.controlNumber, 9)
    \/ ~IsDigits(r.provider.npi, 10)
    \/ r.subscriber.gender \notin {<<"M">>, <<"F">>}
    \/ \E d \in {r.subscriber.dateOfBirth, r.encounter.beginningDateOfService,
                 r.encounter.endDateOfService} : ~IsDigits(d, 8)
    \/ r.encounter.serviceTypeCodes.kind # "array"
    \/ r.encounter.serviceTypeCodes.items = <<>>
    \/ \E i \in 1..Len(r.encounter.serviceTypeCodes.items) :
          r.encounter.serviceTypeCodes.items[i] \notin ServiceTypes

\* Task t runs or has run checkEligibility.
Checks(t) == op[t] = "checkEligibility" /\ pc[t] # "idle"

\* When the checkEligibility of t began the cache held for its request, which
\* breaks no rule, an entry that is still unexpired.
HeldInCache(t) ==
    LET entry == cache[GenerateEligibilityKey(req[t])]
    IN  /\ Checks(t) /\ ~ViolatesRule(req[t])
        /\ entry.present /\ now < entry.ttlUntil
        /\ entry.ttlUntil - DefaultTTL * 1000 <= log[t].startedAt

\* C1: a checkEligibility whose request has an unexpired entry in the cache
\* returns the cached response, and no acquisition, token request or
\* upstream request is made for it.
C1_CachedResponseReturned ==
    \A t \in Tasks :
        HeldInCache(t) =>
            /\ log[t].acquisitions = 0 /\ log[t].tokenPosts = 0
            /\ log[t].upstreamPosts = 0
            /\ pc[t] = "done" =>
                  result[t] = Returned(cache[GenerateEligibilityKey(req[t])].value)

\* A request with an unexpired cache entry has been sent upstream and the
\* upstream's response returned.
C1_Witness ==
    \E t \in Tasks :
        /\ HeldInCache(t) /\ pc[t] = "done"
        /\ result[t] = Returned(UpstreamResponse)
        /\ log[t].upstreamPosts = 1

\* The error checkEligibility throws for a request that fails validation.
IsValidationError(res) ==
    ~res.ok /\ res.error \in {PlainError("validation"), PlainError("serviceTypeCodes")}

\* C2: a checkEligibility whose request breaks a validation rule makes no
\* acquisition, no token request and no upstream request, and fails; once
\* the service is connected to the store, with a validation error.
C2_InvalidNeverReachesUpstream ==
    \A t \in Tasks :
        (Checks(t) /\ ViolatesRule(req[t])) =>
            /\ log[t].acquisitions = 0 /\ log[t].tokenPosts = 0
            /\ log[t].upstreamPosts = 0
            /\ pc[t] = "done" => ~result[t].ok
            /\ (pc[t] = "done" /\ result[t].error # ConnectError)
                  => IsValidationError(result[t])

\* A request with a code outside the known set has been sent upstream and
\* answered.
C2_Witness ==
    \E t \in Tasks :
        /\ Checks(t) /\ ViolatesRule(req[t]) /\ pc[t] = "done"
        /\ result[t] = Returned(UpstreamResponse)
        /\ log[t].tokenPosts = 1 /\ log[t].upstreamPosts = 1

\* The request fails the validation of the code.
FailsValidation(r) == ValidateRequest(r) # {} \/ ~ValidateCodes(r)

\* C3: no connection to the store, no read of it, no token request and no
\* upstream request is made for a request that fails validation.
C3_InvalidCausesNoNetworkActivity ==
    \A t \in Tasks :
        (Checks(t) /\ FailsValidation(req[t])) =>
            /\ log[t].connects = 0 /\ log[t].storeReads = 0
            /\ log[t].storeWrites = 0
            /\ log[t].tokenPosts = 0 /\ log[t].upstreamPosts = 0

\* The first request after the start fails validation: the service has
\* connected to the store and then thrown the validation error.
C3_Witness ==
    \E t \in Tasks :
        /\ Checks(t) /\ FailsValidation(req[t]) /\ pc[t] = "done"
        /\ ops = 1 /\ log[t].connects = 1 /\ authInitialized
        /\ IsValidationError(result[t])

(***************************************************************************)
(* RetryHandler.execute on its own: handlers made with the options below,  *)
(* each attempt answered by the server or the network or given up by       *)
(* axios.                                                                  *)
(***************************************************************************)
RetryOptions ==
    {[maxRetries |-> n, baseDelay |-> 1000, maxDelay |-> 30000, jitterPercent |-> 10] :
        n \in 0..MaxConfiguredRetries}
    \cup {[maxRetries |-> n, baseDelay |-> 1000, maxDelay |-> 1500, jitterPercent |-> 10,
           retryableStatusCodes |-> {500}] : n \in 0..MaxConfiguredRetries}

RetryAfterValues == {0, 2, 40}

RetryReplies ==
    {Reply(Success([status |-> 200, accessToken |-> 0, expiresIn |-> 0]), 0),
     Reply(Failure(HttpError(400)), 0),
     Reply(Failure(HttpError(500)), 0),
     Reply(Failure(HttpError(503)), 2),
     Reply(Failure(NetworkError("ECONNRESET")), 0),
     Reply(Failure(NetworkError("ETIMEDOUT")), 0)}
    \cup {Reply(Failure(HttpError(429)), n) : n \in RetryAfterValues}

NextRetry ==
    \/ \E t \in Sequential, o \in RetryOptions : StartExecute(t, RetryHandlerNew(o))
    \/ \E t \in Sequential : ExecuteResume(t)
    \/ \E t \in Sequential : AttemptAnswered(t, RetryReplies)
    \/ \E t \in Sequential : AttemptTimesOut(t)
    \/ \E t \in Sequential : Wake(t)
    \/ AdvanceToTimer

SpecRetry == Init /\ [][NextRetry]_vars

\* The execute of task t.
Executes(t) == op[t] = "execute" /\ call[t].invocations > 0

\* The retry loop of task t has ended, with a failure.
LoopFailed(t) == ~call[t].active /\ call[t].settled /\ ~call[t].outcome.ok

\* C11: a handler configured with maxRetries = n, n = 0 included, invokes
\* the operation at most n + 1 times, and a successful attempt is the last
\* invocation.
C11_AtMostConfiguredPlusOne ==
    \A t \in Tasks, o \in RetryOptions :
        Executes(t) /\ call[t].h = RetryHandlerNew(o) =>
            /\ call[t].invocations <= o.maxRetries + 1
            /\ call[t].outcome.ok => ~call[t].active

\* A handler configured with maxRetries = 0 has invoked the operation four
\* times.
C11_Witness ==
    \E t \in Tasks, o \in RetryOptions :
        /\ Executes(t) /\ call[t].h = RetryHandlerNew(o)
        /\ o.maxRetries = 0 /\ call[t].invocations = 4
        /\ pc[t] = "done"

\* C12: when an attempt, the last one included, fails with an error that is
\* not retryable, the loop ends and the caller gets that error itself.
C12_NonRetryablePropagatesItself ==
    \A t \in Tasks :
        Executes(t) /\ LoopFailed(t) /\ ~IsRetryableError(call[t].h, call[t].lastError)
            => /\ call[t].outcome.error = call[t].lastError
               /\ pc[t] = "done" => result[t] = Thrown(call[t].lastError)

\* The last attempt has failed with status 400 and the caller has got the
\* error of exhausted retries.
C12_Witness ==
    \E t \in Tasks :
        /\ Executes(t) /\ LoopFailed(t) /\ pc[t] = "done"
        /\ call[t].attempt = call[t].h.maxRetries
        /\ call[t].lastError = HttpError(400)
        /\ result[t].error.kind = "exhausted"

\* The attempt of task t that is under way is the last one the handler
\* makes, and it ends in this step.
LastAttemptEnds(t) ==
    /\ Executes(t) /\ call[t].active /\ call[t].rphase = "attempt"
    /\ call[t].attempt = call[t].h.maxRetries
    /\ call'[t] # call[t]

\* C13: when all maxRetries + 1 attempts have failed with retryable errors
\* execute throws the error of exhausted retries, whose message carries the
\* error of the last attempt; the loop ends in the step in which the last
\* attempt fails, without a sleep.
C13_ExhaustedWrapsLast ==
    /\ [](\A t \in Tasks :
            /\ Executes(t) /\ LoopFailed(t)
            /\ call[t].attempt = call[t].h.maxRetries
            /\ IsRetryableError(call[t].h, call[t].lastError)
            => /\ call[t].outcome.error.kind = "exhausted"
               /\ call[t].outcome.error.lastStatus = call[t].lastError.status
               /\ call[t].lastError.status = 0
                    => call[t].outcome.error.lastCode = call[t].lastError.code
               /\ call[t].invocations = call[t].h.maxRetries + 1)
    /\ [][\A t \in Tasks :
            LastAttemptEnds(t) =>
                /\ ~call'[t].active /\ call'[t].settled
                /\ call'[t].rphase = "none" /\ call'[t].delay = 0
                /\ now' = now]_vars

\* Every attempt has failed, the last with 429 after at least one sleep, and
\* the caller has the error that names 429.
C13_Witness ==
    \E t \in Tasks :
        /\ Executes(t) /\ LoopFailed(t) /\ pc[t] = "done"
        /\ call[t].invocations = call[t].h.maxRetries + 1
        /\ call[t].lastError = HttpError(429)
        /\ result[t] = Thrown(ExhaustedError(HttpError(429)))
        /\ now > 0

\* A timeout: the socket's ETIMEDOUT, or the timeout axios enforces on the
\* attempt (ECONNABORTED, 'timeout of 30000ms exceeded').
IsTimeoutError(error) ==
    error.kind = "network" /\ error.code \in {"ETIMEDOUT", "ECONNABORTED"}

\* C14: an attempt that fails with a timeout is retryable, so that when it
\* is not the last attempt the loop goes on.
C14_TimeoutIsRetried ==
    \A t \in Tasks :
        Executes(t) /\ IsTimeoutError(call[t].lastError) =>
            /\ IsRetryableError(call[t].h, call[t].lastError)
            /\ LoopFailed(t) => call[t].attempt = call[t].h.maxRetries

\* The first of several attempts was given up by axios after its timeout
\* and the caller has that error, no second attempt made.
C14_Witness ==
    \E t \in Tasks :
        /\ Executes(t) /\ LoopFailed(t) /\ pc[t] = "done"
        /\ call[t].h.maxRetries > 0 /\ call[t].invocations = 1
        /\ result[t] = Thrown(AxiosTimeoutError)
        /\ now = AxiosTimeout

\* C15: a retryable failure that carries a retry-after hint of N seconds,
\* whatever its status, is followed by a sleep of min(N * 1000, maxDelay)
\* ms, and the next attempt starts no earlier.
C15_HintGivesDelay ==
    /\ [](\A t \in Sleepers :
            call[t].hint # 0 =>
                call[t].delay = Min(call[t].hint * 1000, call[t].h.maxDelay))
    /\ [][\A t \in Sleepers :
            call[t].hint # 0 /\ call'[t].rphase = "attempt" =>
                now >= call[t].failedAt
                         + Min(call[t].hint * 1000, call[t].h.maxDelay)]_vars

\* After a 503 with a retry-after of 2 seconds the loop sleeps for less
\* than 2000 ms.
C15_Witness ==
    \E t \in Sleepers :
        /\ Executes(t)
        /\ call[t].lastError = HttpError(503) /\ call[t].hint = 2
        /\ call[t].delay < 2000 /\ call[t].h.maxDelay >= 2000

\* The backoff of handler h before jitter.
ExponentialDelay(h, attempt) == h.baseDelay * Pow2(attempt)

\* calculateDelay took its backoff branch for the sleep of task t.
Computed(t) == call[t].hint = 0 \/ call[t].lastError.status # 429

\* C16: without jitter and hint the delay is min(baseDelay * 2^attempt,
\* maxDelay), which does not decrease with the attempt; with jitter it lies
\* between that and maxDelay, the jitter at most jitterFactor * baseDelay *
\* 2^attempt; no delay is above maxDelay.
C16_BackoffBounds ==
    \A t \in Tasks :
        Executes(t) =>
            LET h == call[t].h
                c == call[t]
            IN  /\ \A a \in 0..h.maxRetries :
                      /\ CalculateDelay(h, a, NoError, 0, 0)
                            = Min(ExponentialDelay(h, a), h.maxDelay)
                      /\ CalculateDelay(h, a, NoError, 0, 0)
                            <= CalculateDelay(h, a + 1, NoError, 0, 0)
                      /\ \A random \in RandomPercents :
                            CalculateDelay(h, a, NoError, 0, random) <= h.maxDelay
                /\ t \in Sleepers => c.delay <= h.maxDelay
                /\ t \in Sleepers /\ Computed(t) =>
                      /\ c.delay >= Min(ExponentialDelay(h, c.attempt), h.maxDelay)
                      /\ (c.delay - ExponentialDelay(h, c.attempt)) * 100
                            <= h.jitterPercent * ExponentialDelay(h, c.attempt)

\* The sleep after the second failure is the backoff that maxDelay has
\* capped.
C16_Witness ==
    \E t \in Sleepers :
        /\ Executes(t) /\ Computed(t)
        /\ call[t].attempt = 1
        /\ call[t].delay = call[t].h.maxDelay
        /\ ExponentialDelay(call[t].h, call[t].attempt) > call[t].h.maxDelay

\* The loop of task t has decided on the error of its last failure: it
\* sleeps before a retry, or it has ended before the last attempt.
Retries(t) == t \in Sleepers
GivesUp(t) == LoopFailed(t) /\ call[t].attempt < call[t].h.maxRetries

\* C17: a failure with status 429 is retried whatever the configured
\* retryableStatusCodes; a failure with another status is retried if and
\* only if the status is in the configured set.
C17_RateLimitAlwaysRetryable ==
    \A t \in Tasks :
        Executes(t) /\ call[t].lastError.status # 0 =>
            LET status == call[t].lastError.status
                retryable == status = 429 \/ status \in call[t].h.retryableStatusCodes
            IN  /\ Retries(t) => retryable
                /\ GivesUp(t) => ~retryable
                /\ IsRetryableError(call[t].h, call[t].lastError) <=> retryable

\* A handler whose configured set does not hold 429 sleeps before a retry
\* after a 429.
C17_Witness ==
    \E t \in Sleepers :
        /\ Executes(t)
        /\ call[t].lastError = HttpError(429)
        /\ 429 \notin call[t].h.retryableStatusCodes

(***************************************************************************)
(* The eligibility breaker around the retry loop: posts of one caller, one *)
(* after the other, whose attempts the upstream answers with a response, a *)
(* rejection or a rate limit, with or without a retry-after; time runs     *)
(* from timer to timer.                                                    *)
(***************************************************************************)
RateLimitedReplies ==
    {Reply(Success([status |-> 200, accessToken |-> 0, expiresIn |-> 0]), 0),
     Reply(Failure(HttpError(400)), 0)}
    \cup {Reply(Failure(HttpError(429)), n) : n \in RetryAfterValues \ {0}}

NextBreakerRetry ==
    \/ \E t \in Sequential, b \in PostBreakers : StartPost(t, b)
    \/ \E t \in Sequential : PostResume(t)
    \/ \E t \in Sequential : AttemptAnswered(t, RateLimitedReplies)
    \/ \E t \in Sequential : AttemptTimesOut(t)
    \/ \E t \in Sequential : Wake(t)
    \/ \E t \in Sequential : CallTimesOut(t)
    \/ AdvanceToTimer

SpecBreakerRetry == Init /\ [][NextBreakerRetry]_vars

(***************************************************************************)
(* The service under one caller's valid requests, one after the other,     *)
(* with a token endpoint and an upstream that answer, reject, or ask the   *)
(* caller to come back; time runs from timer to timer.                     *)
(***************************************************************************)
RetriedTokenReplies(n) ==
    {Reply(Success([status |-> 200, accessToken |-> n, expiresIn |-> 3600]), 0),
     Reply(Failure(HttpError(401)), 0),
     Reply(Failure(HttpError(503)), 0)}

RetriedRepliesTo(t) ==
    IF call[t].b = AuthBreaker THEN RetriedTokenReplies(issued + 1)
    ELSE RateLimitedReplies

NextEligibilityRetry ==
    \/ \E t \in Sequential : StartCheckEligibility(t, ValidRequest)
    \/ \E t \in Sequential : ServiceInitDone(t)
    \/ \E t \in Sequential : TokenRead(t)
    \/ \E t \in Sequential : RefreshResume(t)
    \/ \E t \in Sequential : TokenWrite(t)
    \/ \E t \in Sequential : EligibilityResume(t)
    \/ \E t \in Sequential : AttemptAnswered(t, RetriedRepliesTo(t))
    \/ \E t \in Sequential : AttemptTimesOut(t)
    \/ \E t \in Sequential : Wake(t)
    \/ \E t \in Sequential : CallTimesOut(t)
    \/ AdvanceToTimer

SpecEligibilityRetry == Init /\ [][NextEligibilityRetry]_vars

\* The retry loop of task t returns a result in this step.
LoopReturns(t) == call[t].active /\ ~call'[t].active /\ call'[t].returned

\* What the window of the breaker of t's call holds of f.
Recorded(t, f) == Stats(breakers[call[t].b].window, f)

\* What a loop that returns in this step, after any number of retried
\* failures, does to the breaker: one success, no failure, and the breaker
\* is not opened.
CountsOneSuccess(t) ==
    /\ Stats(breakers'[call[t].b].window, "successes") = Recorded(t, "successes") + 1
    /\ Stats(breakers'[call[t].b].window, "failures") = Recorded(t, "failures")
    /\ breakers'[call[t].b].state = "open" => breakers[call[t].b].state = "open"
    /\ call'[t].outcome.ok

\* C18: a call whose retry sequence fails k >= 0 times with retryable
\* errors and then succeeds records exactly one success and no failure and
\* does not open the breaker.
C18_RetriedSuccessCountsOnce ==
    [][\A t \in Tasks : LoopReturns(t) => CountsOneSuccess(t)]_vars

\* 429, 429, 200: the third attempt has succeeded, the window holds one
\* fire, one success and no failure, and the breaker is closed.
C18_Witness ==
    \E t \in Tasks :
        /\ op[t] = "post" /\ pc[t] = "done" /\ result[t].ok
        /\ call[t].returned /\ call[t].invocations = 3
        /\ call[t].lastError = HttpError(429)
        /\ Recorded(t, "fires") = 1 /\ Recorded(t, "successes") = 1
        /\ Recorded(t, "failures") = 0
        /\ breakers[call[t].b].state = "closed"

\* The timeout timer of the call of task t fires in this step, its retry
\* loop still under way.
TimerFires(t) ==
    /\ call[t].active /\ ~call[t].settled /\ call[t].timeoutAt # NoTimer
    /\ call'[t].active /\ call'[t].timeoutAt = NoTimer

\* The retry loop of a call that has timed out ends in this step.
EndsAfterTimeout(t) == call[t].active /\ call[t].settled /\ ~call'[t].active

\* C19: a call the breaker has let through waits for its timer no longer
\* than the breaker's timeout; when the timer fires with the retry loop
\* still under way the call is settled at that moment with the timeout
\* error, one failure and one timeout are recorded, the caller goes on with
\* that error before time passes, and the loop's later end records nothing.
C19_CallBoundedByTimeout ==
    /\ [](\A t \in Tasks :
            call[t].active /\ ~call[t].settled /\ call[t].timeoutAt # NoTimer =>
                /\ now <= call[t].timeoutAt
                /\ call[t].timeoutAt - now <= BreakerTimeout(call[t].b))
    /\ [][\A t \in Tasks :
            TimerFires(t) =>
                /\ now = call[t].timeoutAt
                /\ call'[t].settled
                /\ call'[t].outcome = Failure(BreakerTimeoutError)
                /\ Stats(breakers'[call[t].b].window, "failures")
                      = Recorded(t, "failures") + 1
                /\ Stats(breakers'[call[t].b].window, "timeouts")
                      = Recorded(t, "timeouts") + 1
                /\ Stats(breakers'[call[t].b].window, "successes")
                      = Recorded(t, "successes")]_vars
    /\ [][\A t \in Tasks : EndsAfterTimeout(t) => breakers' = breakers]_vars
    /\ [][Pending => now' = now]_vars
    /\ [](\A t \in Tasks :
            pc[t] = "done" /\ call[t].outcome = Failure(BreakerTimeoutError)
                => result[t] = Thrown(BreakerTimeoutError))

\* The timer of the eligibility call has fired during a backoff sleep of
\* its retry loop: the window holds one timeout and no failure, the
\* TypeError of the 'timeout' listener was left uncaught, and the caller
\* has received nothing.
C19_Witness ==
    \E t \in Sleepers :
        /\ call[t].b = EligibilityBreaker /\ ~call[t].settled
        /\ call[t].invocations >= 2
        /\ pc[t] = "elig_wait" /\ result[t] = NoResult
        /\ Recorded(t, "failures") = 0 /\ Recorded(t, "timeouts") = 1
        /\ breakers[EligibilityBreaker].uncaught
        /\ now = log[t].startedAt + BreakerTimeout(EligibilityBreaker)

\* The checkEligibility of task t has failed.
CheckFailed(t) == op[t] = "checkEligibility" /\ pc[t] = "done" /\ ~result[t].ok

\* The eligibility call of task t was rejected by the breaker.
RejectedUpstream(t) == call[t].b = EligibilityBreaker /\ Rejected(t)

\* The retry loop of the eligibility call of task t has ended with the
\* failure of its last attempt.
ExhaustedUpstream(t) ==
    /\ call[t].b = EligibilityBreaker
    /\ ~call[t].active /\ ~call[t].returned
    /\ call[t].invocations = call[t].h.maxRetries + 1

\* C20: rejected by the eligibility breaker, checkEligibility fails with
\* the circuit-breaker-open error; its retries exhausted, it fails with the
\* error of exhausted retries, so the end of the exhausted sequence is
\* delivered to the call; and the caller's response tells the two from
\* each other and from every other failure.
C20_KindsByCondition ==
    /\ \A t \in Tasks : ExhaustedUpstream(t) /\ call[t].attempt > 0 => call[t].settled
    /\ \A t \in Tasks :
        CheckFailed(t) =>
            /\ RejectedUpstream(t) <=> RouteResponse(t).error.kind = "circuitOpen"
            /\ ExhaustedUpstream(t) => RouteResponse(t).error.kind = "exhausted"

\* The upstream has answered all six attempts with 429: the failure has
\* opened the breaker, the TypeError of the 'open' listener was left
\* uncaught, and checkEligibility has neither returned nor thrown.
C20_Witness ==
    \E t \in Tasks :
        /\ op[t] = "checkEligibility" /\ pc[t] = "elig_wait"
        /\ ExhaustedUpstream(t) /\ call[t].invocations = 6
        /\ call[t].lastError = HttpError(429)
        /\ ~call[t].settled /\ result[t] = NoResult
        /\ breakers[EligibilityBreaker].state = "open"
        /\ breakers[EligibilityBreaker].uncaught

(***************************************************************************)
(* The store out of reach under checkEligibility.                          *)
(***************************************************************************)
\* The checkEligibility of t, whose request passes validation, has ended.
ValidCheckEnded(t) == Checks(t) /\ ~FailsValidation(req[t]) /\ pc[t] = "done"

\* C21: with the store out of reach at connection time or at lookup time a
\* valid request goes on as on a cache miss: the token is read or
\* acquired, and the error of the store's connection is not what the
\* caller gets.
C21_StoreFailureNotSurfaced ==
    \A t \in Tasks :
        ValidCheckEnded(t) =>
            /\ result[t] # Thrown(ConnectError)
            /\ log[t].storeReads >= 1

\* The first valid request comes while the store is down: the connection
\* is refused and checkEligibility throws the connection's error, no token
\* read or acquired, nothing sent upstream.
C21_Witness ==
    \E t \in Tasks :
        /\ ValidCheckEnded(t) /\ ~redisUp
        /\ log[t].connects = 1 /\ ~serviceInitialized
        /\ result[t] = Thrown(ConnectError)
        /\ log[t].storeReads = 0 /\ log[t].acquisitions = 0
        /\ log[t].upstreamPosts = 0

(***************************************************************************)
(* CacheService on its own: a caller looks responses up and stores them,   *)
(* the store goes down and comes back, entries expire, another client      *)
(* writes under a key.                                                     *)
(***************************************************************************)
CacheRequests ==
    {[ValidRequest EXCEPT !.encounter.serviceTypeCodes = Codes("array", <<"98", "30">>)],
     [ValidRequest EXCEPT !.encounter.serviceTypeCodes = Codes("array", <<"30", "98">>)],
     [ValidRequest EXCEPT !.encounter.serviceTypeCodes = Codes("string", <<"30">>)]}

CacheResponses == {UpstreamResponse, CachedResponse}
TtlValues == {NoTtl, Ttl(0), Ttl(60)}
CacheSteps == {60000, 240000}
ForeignKeys == {GenerateEligibilityKey(r) : r \in {x \in CacheRequests : ~KeyThrows(x)}}

NextCache ==
    \/ CacheInitialize
    \/ \E t \in Sequential, r \in CacheRequests : StartGetEligibilityResponse(t, r)
    \/ \E t \in Sequential : GetEligibilityResponseDone(t)
    \/ \E t \in Sequential, r \in CacheRequests, v \in CacheResponses, ttl \in TtlValues :
          StartSetEligibilityResponse(t, r, v, ttl)
    \/ \E t \in Sequential : SetEligibilityResponseDone(t)
    \/ \E k \in ForeignKeys : ForeignWrite(k)
    \/ RedisFlips
    \/ \E d \in CacheSteps : Advance(d)

SpecCache == Init /\ [][NextCache]_vars

\* The operation o of CacheService returns or throws to task t in this
\* step: at once from the call, or when its read or write has come back.
CacheOpEnds(t, o) ==
    /\ op'[t] = o /\ pc'[t] = "done"
    /\ pc[t] \in {"cache_read", "cache_write"} \/ ops' # ops

\* The read of t's getEligibilityResponse comes back in this step.
ReadComesBack(t) == pc[t] = "cache_read" /\ pc'[t] = "done"

\* The store holds under the key of t's request a value that is not JSON.
Undecodable(t) ==
    LET entry == StoredValue(cache[GenerateEligibilityKey(req[t])], now)
    IN  entry.present /\ ~entry.json

\* C22: getEligibilityResponse never throws and returns null when the
\* service is not connected, when the read fails and when the stored value
\* is not JSON; setEligibilityResponse never throws and returns undefined,
\* also when the service is not connected or the write fails.
C22_NoCacheFailureEscapes ==
    [][\A t \in Tasks :
          /\ CacheOpEnds(t, "getEligibilityResponse") =>
                /\ result'[t].ok
                /\ cacheClient # "ready" => result'[t] = Returned(Null)
                /\ ReadComesBack(t) /\ (~redisUp \/ Undecodable(t)) =>
                      result'[t] = Returned(Null)
          /\ CacheOpEnds(t, "setEligibilityResponse") =>
                result'[t] = Returned(Undefined)]_vars

\* The store went down while a read of an entry it holds was under way:
\* getEligibilityResponse has returned null.
C22_Witness ==
    \E t \in Tasks :
        LET entry == cache[GenerateEligibilityKey(req[t])]
        IN  /\ op[t] = "getEligibilityResponse" /\ pc[t] = "done"
            /\ log[t].storeReads = 1 /\ ~redisUp
            /\ entry.present /\ entry.json /\ now < entry.ttlUntil
            /\ result[t] = Returned(Null)

(***************************************************************************)
(* generateEligibilityKey on its own, called with requests of up to three  *)
(* codes in every order.                                                   *)
(***************************************************************************)
KeyCodes == {"30", "98", "AL"}
MemberIds == {<<"m">>, <<"n">>}

CodeLists == UNION {[1..n -> KeyCodes] : n \in 0..MaxCodes}

KeyRequests ==
    {[ValidRequest EXCEPT !.subscriber.memberId = id,
                          !.encounter.serviceTypeCodes = Codes("array", codes)] :
        id \in MemberIds, codes \in CodeLists}
    \cup {NullRequest,
          [ValidRequest EXCEPT !.encounter.serviceTypeCodes = Codes("string", <<"30">>)]}

NextKey == \E t \in Tasks, r \in KeyRequests : GenerateEligibilityKeyCall(t, r)

SpecKey == Init /\ [][NextKey]_vars

\* generateEligibilityKey has returned a key to task t.
Keyed(t) == op[t] = "generateEligibilityKey" /\ pc[t] = "done" /\ result[t].ok

\* How many times code c is in the list.
Count(codes, c) == Cardinality({i \in DOMAIN codes : codes[i] = c})

\* The two lists hold the same codes, in whatever order.
SameCodes(a, b) == \A c \in KeyCodes : Count(a, c) = Count(b, c)

\* The requests t and u passed differ at most in the order of the codes.
SameButOrder(t, u) ==
    /\ req[t].subscriber.memberId = req[u].subscriber.memberId
    /\ req[t].provider.npi = req[u].provider.npi
    /\ req[t].encounter.beginningDateOfService = req[u].encounter.beginningDateOfService
    /\ SameCodes(log[t].calledWith, log[u].calledWith)

C24_RequestUnchanged ==
    \A t \in Tasks :
        Keyed(t) => req[t].encounter.serviceTypeCodes.items = log[t].calledWith

\* generateEligibilityKey was called with the codes 98, 30 and has left the
\* request with the codes 30, 98.
C24_Witness ==
    \E t \in Tasks :
        /\ Keyed(t)
        /\ log[t].calledWith = <<"98", "30">>
        /\ req[t].encounter.serviceTypeCodes.items = <<"30", "98">>

(***************************************************************************)
(* SimpleResponseParser.  An upstream response is null, or has errors, or  *)
(* has benefitsInformation, a list of entries with code, name and the      *)
(* serviceTypeCodes they are about, or something that is not a list        *)
(* (iterable is FALSE).                                                    *)
(***************************************************************************)
Benefit(code, name, codes) == [code |-> code, name |-> name, serviceTypeCodes |-> codes]

\* benefit.code === '1' || benefit.name === 'Active Coverage'
IsActive(benefit) == benefit.code = "1" \/ benefit.name = "Active Coverage"

\* The first of the requested codes the entry includes, 0 when none: the
\* inner loop breaks at it.
FirstRequested(benefit, requested) ==
    LET matching == {i \in DOMAIN requested : requested[i] \in benefit.serviceTypeCodes}
    IN  IF matching = {} THEN 0
        ELSE CHOOSE i \in matching : \A j \in matching : i <= j

\* The loop over benefitsInformation: an entry pushes one item, for the
\* first requested code it includes.
RECURSIVE MatchBenefits(_, _)
MatchBenefits(benefits, requested) ==
    IF benefits = <<>> THEN <<>>
    ELSE LET benefit == Head(benefits)
             i == FirstRequested(benefit, requested)
         IN  (IF i = 0 THEN <<>>
              ELSE <<[serviceTypeCode |-> requested[i], covered |-> IsActive(benefit),
                      coverageLevel |-> benefit.name]>>)
             \o MatchBenefits(Tail(benefits), requested)

\* The coverage has an item of the code.
Finds(coverage, code) == \E i \in DOMAIN coverage : coverage[i].serviceTypeCode = code

\* The second loop: a requested code the coverage has no item of gets one
\* that is not covered.
RECURSIVE AddNotCovered(_, _)
AddNotCovered(coverage, requested) ==
    IF requested = <<>> THEN coverage
    ELSE AddNotCovered(
            IF Finds(coverage, Head(requested)) THEN coverage
            ELSE Append(coverage, [serviceTypeCode |-> Head(requested), covered |-> FALSE,
                                   coverageLevel |-> "Not Covered"]),
            Tail(requested))

ParseSimpleCoverage(response, r) ==
    LET requested == r.encounter.serviceTypeCodes.items
    IN  AddNotCovered(MatchBenefits(response.benefitsInformation, requested), requested)

\* coverage.some(c => c.covered)
IsEligible(coverage) == \E i \in DOMAIN coverage : coverage[i].covered

\* parseEligibilityResponse(response, r): the response's errors give the
\* result of an error; a null response, or benefitsInformation that cannot
\* be iterated, throws a TypeError into the catch, which gives the result
\* of a failure; any other is parsed.
ParseEligibilityResponse(response, r) ==
    IF ~response.present
    THEN [eligible |-> FALSE, status |-> "error"]
    ELSE IF response.errors
    THEN [eligible |-> FALSE, eligibilityStatus |-> "error"]
    ELSE IF ~response.iterable
    THEN [eligible |-> FALSE, status |-> "error"]
    ELSE LET coverage == ParseSimpleCoverage(response, r)
         IN  [eligible |-> IsEligible(coverage),
              eligibilityStatus |-> IF IsEligible(coverage) THEN "active" ELSE "inactive",
              benefits |-> coverage]

\* parseEligibilityResponse is called with the upstream's response and the
\* request.
ParseEligibilityResponseCall(t, response, r) ==
    /\ Running
    /\ ~Pending
    /\ Free(t) /\ ops < MaxRequests
    /\ ops' = ops + 1
    /\ op' = [op EXCEPT ![t] = "parseEligibilityResponse"]
    /\ req' = [req EXCEPT ![t] = r]
    /\ Apply(t, Finish(t, Returned(ParseEligibilityResponse(response, r)),
                       [StartLog(now) EXCEPT !.calledWith = response]))
    /\ UNCHANGED <<clockVars, storeVars, initVars, pendingToken, issued>>

(***************************************************************************)
(* The parser on its own, under responses of up to two entries about two   *)
(* codes and requests of up to two codes.                                  *)
(***************************************************************************)
ParsedCodes == {"30", "98"}

Benefits ==
    {Benefit(s[1], s[2], codes) :
        s \in {<<"1", "Other">>, <<"6", "Active Coverage">>, <<"6", "Inactive">>},
        codes \in SUBSET ParsedCodes}

Responses ==
    {[present |-> TRUE, errors |-> FALSE, iterable |-> TRUE,
      benefitsInformation |-> list] :
        list \in UNION {[1..n -> Benefits] : n \in 0..MaxBenefits}}
    \cup {[present |-> TRUE, errors |-> TRUE, iterable |-> TRUE,
           benefitsInformation |-> list] :
             list \in {<<>>, <<Benefit("1", "Other", {"30"})>>}}
    \cup {[present |-> TRUE, errors |-> FALSE, iterable |-> FALSE,
           benefitsInformation |-> <<>>],
          [present |-> FALSE, errors |-> FALSE, iterable |-> TRUE,
           benefitsInformation |-> <<>>]}

ParsedRequests ==
    {[ValidRequest EXCEPT !.encounter.serviceTypeCodes = Codes("array", codes)] :
        codes \in UNION {[1..n -> ParsedCodes] : n \in 0..MaxRequested}}

NextParser ==
    \E t \in Sequential, response \in Responses, r \in ParsedRequests :
        ParseEligibilityResponseCall(t, response, r)

SpecParser == Init /\ [][NextParser]_vars

\* parseEligibilityResponse has parsed for task t a response without errors.
Parsed(t) ==
    /\ op[t] = "parseEligibilityResponse" /\ pc[t] = "done"
    /\ log[t].calledWith.present /\ ~log[t].calledWith.errors
    /\ log[t].calledWith.iterable

RequestedCodes(t) ==
    {req[t].encounter.serviceTypeCodes.items[i] :
        i \in DOMAIN req[t].encounter.serviceTypeCodes.items}

\* The first entry of the upstream's list that includes code c is an entry
\* of active coverage.
FirstEntryActive(benefits, c) ==
    \E i \in DOMAIN benefits :
        /\ c \in benefits[i].serviceTypeCodes /\ IsActive(benefits[i])
        /\ \A j \in 1..(i - 1) : c \notin benefits[j].serviceTypeCodes

\* The result reports code c as covered: the item of c, the first if there
\* are several, says covered.
ReportsCovered(coverage, c) ==
    \E i \in DOMAIN coverage :
        /\ coverage[i].serviceTypeCode = c /\ coverage[i].covered
        /\ \A j \in 1..(i - 1) : coverage[j].serviceTypeCode # c

\* C25: the result reports a requested code as covered exactly when the
\* first entry of the upstream's list that includes the code is an entry
\* of active coverage, also when an entry includes several requested codes.
C25_FirstEntryDecides ==
    \A t \in Tasks :
        Parsed(t) =>
            \A c \in RequestedCodes(t) :
                ReportsCovered(result[t].value.benefits, c)
                    <=> FirstEntryActive(log[t].calledWith.benefitsInformation, c)

\* The codes 30 and 98 were requested and the one entry of the upstream's
\* list, of active coverage, includes both: the result has 30 covered and
\* 98 not covered.
C25_Witness ==
    \E t \in Tasks :
        /\ Parsed(t)
        /\ req[t].encounter.serviceTypeCodes.items = <<"30", "98">>
        /\ log[t].calledWith.benefitsInformation
              = <<Benefit("1", "Other", {"30", "98"})>>
        /\ result[t].value.benefits
              = <<[serviceTypeCode |-> "30", covered |-> TRUE, coverageLevel |-> "Other"],
                  [serviceTypeCode |-> "98", covered |-> FALSE,
                   coverageLevel |-> "Not Covered"]>>

\* C26: of a response without errors the result is eligible exactly when
\* the first entry that includes some requested code is, for that code, an
\* entry of active coverage; its eligibilityStatus is 'active' when it is
\* eligible and 'inactive' when not.
C26_EligibleIffSomeCodeCovered ==
    \A t \in Tasks :
        Parsed(t) =>
            /\ result[t].value.eligible
                  <=> \E c \in RequestedCodes(t) :
                         FirstEntryActive(log[t].calledWith.benefitsInformation, c)
            /\ result[t].value.eligibilityStatus
                  = IF result[t].value.eligible THEN "active" ELSE "inactive"

\* The code 30 was requested; the first entry that includes it is not of
\* active coverage, a later one is: the result is eligible and 'active'.
C26_Witness ==
    \E t \in Tasks :
        /\ Parsed(t)
        /\ req[t].encounter.serviceTypeCodes.items = <<"30">>
        /\ log[t].calledWith.benefitsInformation
              = <<Benefit("6", "Inactive", {"30"}), Benefit("1", "Other", {"30"})>>
        /\ result[t].value.eligible
        /\ result[t].value.eligibilityStatus = "active"
        /\ ~ReportsCovered(result[t].value.benefits, "30")

(***************************************************************************)
(* checkEligibility and the response cache.                                *)
(***************************************************************************)
\* The checkEligibility of t has returned the upstream's parsed response
\* and the cache service is connected to a store that answers.
SucceededWithStore(t) ==
    /\ Checks(t) /\ pc[t] = "done" /\ result[t] = Returned(UpstreamResponse)
    /\ log[t].upstreamPosts >= 1
    /\ cacheClient = "ready" /\ redisUp

\* C27: after a checkEligibility that succeeded through the upstream call,
\* the store being available, the cache holds under the request's key an
\* unexpired entry written since the request began.
C27_SuccessIsCached ==
    \A t \in Tasks :
        SucceededWithStore(t) =>
            LET entry == cache[GenerateEligibilityKey(req[t])]
            IN  /\ entry.present /\ now < entry.ttlUntil
                /\ entry.cachedAt >= log[t].startedAt

\* A checkEligibility has returned the upstream's response, the cache
\* service connected all along, and the cache holds nothing under the
\* request's key: the one write to the store was the token's.
C27_Witness ==
    \E t \in Tasks :
        /\ SucceededWithStore(t) /\ flips = 0
        /\ ~cache[GenerateEligibilityKey(req[t])].present
        /\ log[t].storeWrites = 1

(***************************************************************************)
(* The round trip through the cache.                                       *)
(***************************************************************************)
\* The last setEligibilityResponse of t was taken by the store, under the
\* key of the request t now looks up, and no other client has written
\* there since.
LooksUpOwnWrite(t) ==
    /\ ReadComesBack(t) /\ redisUp /\ ~Undecodable(t)
    /\ cacheWrite[t].written /\ cacheWrite[t].key = GenerateEligibilityKey(req[t])

\* The read that comes back to t in this step gives the response of the
\* write with cacheMetadata.hit while the write is younger than seconds,
\* and null from then on.
RoundTrip(t, seconds) ==
    IF now < cacheWrite[t].writtenAt + seconds * 1000
    THEN /\ result'[t].ok /\ ~result'[t].value.null
         /\ result'[t].value.response = cacheWrite[t].value
         /\ result'[t].value.cachedAt = cacheWrite[t].cachedAt
         /\ result'[t].value.cacheMetadata.hit
    ELSE result'[t] = Returned(Null)

\* The TTL of a write when the default is taken only if no ttl is passed.
TtlSecondsUnlessNone(ttl) == IF ttl.supplied THEN ttl.seconds ELSE DefaultTTL

\* C28: a getEligibilityResponse after a setEligibilityResponse the store
\* took, for a request of the same key, returns the response written last
\* with cacheMetadata.hit until the ttl passed to the write has elapsed, the
\* default when none was passed, and null afterwards.
C28_RoundTripWithSuppliedTtl ==
    [][\A t \in Tasks :
          LooksUpOwnWrite(t) => RoundTrip(t, TtlSecondsUnlessNone(cacheWrite[t].ttl))]_vars

\* What holds of the round trip: the TTL is the one the code computes,
\* ttl || defaultTTL, the default also for a ttl of 0.
C28_RoundTripWithComputedTtl ==
    [][\A t \in Tasks :
          LooksUpOwnWrite(t) => RoundTrip(t, TtlSeconds(cacheWrite[t].ttl))]_vars

\* A response was stored with ttl 0 and a minute or more later a lookup of
\* the same key has returned it as a hit.
C28_Witness ==
    \E t \in Tasks :
        /\ op[t] = "getEligibilityResponse" /\ pc[t] = "done"
        /\ cacheWrite[t].written /\ cacheWrite[t].ttl = Ttl(0)
        /\ cacheWrite[t].key = GenerateEligibilityKey(req[t])
        /\ now >= cacheWrite[t].writtenAt + 60000
        /\ log[t].calledWith = <<"98", "30">>
        /\ result[t].ok /\ ~result[t].value.null
        /\ result[t].value.response = cacheWrite[t].value
        /\ result[t].value.cacheMetadata.hit

(***************************************************************************)
(* The order of the steps of one checkEligibility.                         *)
(***************************************************************************)
\* The checkEligibility of t asks for the token in this step: getAccessToken
\* is called and its read of the store gets under way.
RequestsToken(t) == op'[t] = "checkEligibility" /\ log'[t].storeReads = 1
                    /\ (log[t].storeReads = 0 \/ ops' # ops)

\* The first request to the upstream is sent for t in this step.
DispatchesUpstream(t) ==
    /\ op'[t] = "checkEligibility" /\ log'[t].upstreamPosts >= 1
    /\ log[t].upstreamPosts = 0 \/ ops' # ops

\* getAccessToken returns a token to the checkEligibility of t in this
\* step: the stored one from the read, or the one acquired once the write
\* of it has come back.
TokenReturns(t) ==
    /\ op[t] = "checkEligibility" /\ pc'[t] = "elig_wait"
    /\ \/ pc[t] = "token_read" /\ redisUp /\ HoldsFresh(tokenStore, now)
       \/ pc[t] = "token_write" /\ pendingToken[t].data.present

\* The checkEligibility of t ends in this step, with res.
EndsWith(t, res) ==
    /\ op'[t] = "checkEligibility" /\ pc'[t] = "done" /\ result'[t] = res
    /\ pc[t] # "done" \/ ops' # ops

\* The checkEligibility of t has ended and the step is not the start of the
\* task's next operation.
StaysEnded(t) ==
    /\ Checks(t) /\ pc[t] = "done" /\ ops' = ops

\* C30: the steps of a checkEligibility come in order.  The token is asked
\* for only of a request that has passed validation; the upstream is sent
\* to only in the step in which getAccessToken returns a token; the parsed
\* response is returned only once the call to the upstream has returned a
\* response.  A request that fails validation ends without a read of the
\* token store and without a request to either endpoint, one whose token is
\* not obtained without a request to the upstream, and a request that has
\* ended does nothing more, its result as it is.
C30_StepsInOrder ==
    /\ [][\A t \in Tasks :
            /\ RequestsToken(t) => ~FailsValidation(req'[t])
            /\ DispatchesUpstream(t) => TokenReturns(t)
            /\ EndsWith(t, Returned(UpstreamResponse)) =>
                  /\ pc[t] = "elig_wait" /\ call[t].settled
                  /\ call[t].b = EligibilityBreaker /\ call[t].outcome.ok
                  /\ log[t].upstreamPosts >= 1
            /\ (EndsWith(t, result'[t]) /\ ~result'[t].ok) =>
                  /\ pc[t] \in {"idle", "done", "init_wait"} =>
                        /\ log'[t].storeReads = 0 /\ log'[t].tokenPosts = 0
                        /\ log'[t].upstreamPosts = 0
                  /\ pc[t] = "refresh_wait" => log'[t].upstreamPosts = 0
            /\ StaysEnded(t) =>
                  /\ pc'[t] = "done" /\ result'[t] = result[t]
                  /\ log'[t].storeReads = log[t].storeReads
                  /\ log'[t].storeWrites = log[t].storeWrites
                  /\ log'[t].acquisitions = log[t].acquisitions
                  /\ ~call[t].active => log'[t] = log[t]]_vars
    /\ [](\A t \in Tasks :
            (Checks(t) /\ FailsValidation(req[t])) =>
                /\ log[t].storeReads = 0 /\ log[t].tokenPosts = 0
                /\ log[t].upstreamPosts = 0)

\* A valid request has failed at the token: the token endpoint has refused
\* the acquisition, checkEligibility has thrown and nothing was sent to the
\* upstream.
C30_Witness ==
    \E t \in Tasks :
        /\ ValidCheckEnded(t) /\ ~result[t].ok
        /\ log[t].storeReads = 1 /\ log[t].acquisitions = 1
        /\ log[t].tokenPosts = 1 /\ log[t].upstreamPosts = 0
        /\ result[t].error = PlainError("authFailed")

(***************************************************************************)
(* What refreshToken makes of the token endpoint's response.               *)
(***************************************************************************)
\* The call of t's refreshToken through the auth breaker has settled and
\* refreshToken goes on in this step.
RefreshGoesOn(t) == pc[t] = "refresh_wait" /\ call[t].settled /\ pc'[t] # "refresh_wait"

\* The response is a 200 with an access token.
HasToken(out) == out.ok /\ out.response.status = 200 /\ out.response.accessToken # 0

\* The lifetime in ms of the token of a response: the reported one, an hour
\* when none is reported.
Lifetime(response) ==
    (IF response.expiresIn = 0 THEN DefaultExpiresIn ELSE response.expiresIn) * 1000

\* C31: of a response with an access token refreshToken makes a token that
\* expires the reported lifetime after the acquisition, an hour when none
\* is reported, writes it to the store, when the store takes the write,
\* with a time-to-live of that lifetime, and returns the access token; of a
\* 200 response without an access token it makes a failure and the store
\* stays as it is.
C31_RefreshStoresWithLifetime ==
    /\ [][\A t \in Tasks :
            RefreshGoesOn(t) =>
                LET out == call[t].outcome
                IN  IF HasToken(out)
                    THEN /\ pc'[t] = "token_write"
                         /\ pendingToken'[t].data
                               = [present |-> TRUE, token |-> out.response.accessToken,
                                  expiresAt |-> now + Lifetime(out.response)]
                         /\ pendingToken'[t].ttl = Lifetime(out.response)
                    ELSE /\ pc'[t] = "done" /\ ~result'[t].ok
                         /\ result'[t].error # NoError
                         /\ tokenStore' = tokenStore
                         /\ log'[t].storeWrites = 0]_vars
    /\ [][\A t \in Tasks :
            WritesToken(t) =>
                /\ redisUp =>
                      /\ tokenStore'.data = pendingToken[t].data
                      /\ tokenStore'.ttlUntil = now + Lifetime(call[t].outcome.response)
                /\ op[t] = "getAccessToken" =>
                      result'[t] = Returned(call[t].outcome.response.accessToken)]_vars

\* The token endpoint has answered with a token and no lifetime: the store
\* holds the token, which expires an hour after the acquisition, with a
\* time-to-live of an hour, and getAccessToken has returned it.
C31_Witness ==
    \E t \in Tasks :
        /\ AcquiredToken(t) /\ pc[t] = "done"
        /\ call[t].outcome.response.expiresIn = 0
        /\ pendingToken[t].written /\ tokenStore.data = pendingToken[t].data
        /\ tokenStore.ttlUntil = tokenStore.data.expiresAt
        /\ tokenStore.ttlUntil = log[t].startedAt + DefaultExpiresIn * 1000
        /\ result[t] = Returned(tokenStore.data.token)

(***************************************************************************)
(* The shape of the parser's results.                                      *)
(***************************************************************************)
\* The items the coverage has of code c.
ItemsOf(coverage, c) == {i \in DOMAIN coverage : coverage[i].serviceTypeCode = c}

\* C32: the benefits of the result of a response without errors hold one
\* item of every requested code, and nothing else.
C32_OneItemPerCode ==
    \A t \in Tasks :
        Parsed(t) =>
            /\ \A c \in RequestedCodes(t) :
                  Cardinality(ItemsOf(result[t].value.benefits, c)) = 1
            /\ Len(result[t].value.benefits) = Cardinality(RequestedCodes(t))

\* The codes 30 and 98 were requested and two entries of the upstream's list
\* include 30: the benefits hold two items of 30 and one of 98.
C32_Witness ==
    \E t \in Tasks :
        /\ Parsed(t)
        /\ req[t].encounter.serviceTypeCodes.items = <<"30", "98">>
        /\ log[t].calledWith.benefitsInformation
              = <<Benefit("1", "Other", {"30"}), Benefit("6", "Active Coverage", {"30"})>>
        /\ Cardinality(ItemsOf(result[t].value.benefits, "30")) = 2
        /\ Cardinality(ItemsOf(result[t].value.benefits, "98")) = 1
        /\ Len(result[t].value.benefits) = 3

\* parseEligibilityResponse has returned or thrown to task t.
ParseEnded(t) == op[t] = "parseEligibilityResponse" /\ pc[t] = "done"

\* What a reader of result.eligibilityStatus, the field of the status of a
\* parsed response, gets.
EligibilityStatusOf(v) ==
    IF "eligibilityStatus" \in DOMAIN v THEN v.eligibilityStatus ELSE "undefined"

\* C33: parseEligibilityResponse never throws; of a response with errors,
\* whatever its benefits, and of a response it cannot process it returns
\* a result that is not eligible and whose eligibilityStatus, the field of
\* the status of a parsed response, is 'error'.
C33_ErrorsUnderStatusField ==
    \A t \in Tasks :
        ParseEnded(t) =>
            /\ result[t].ok
            /\ ~Parsed(t) =>
                  /\ ~result[t].value.eligible
                  /\ EligibilityStatusOf(result[t].value) = "error"

\* A null response was parsed: the result is not eligible, has 'error'
\* under status and nothing under eligibilityStatus.
C33_Witness ==
    \E t \in Tasks :
        /\ ParseEnded(t) /\ ~log[t].calledWith.present
        /\ result[t] = Returned([eligible |-> FALSE, status |-> "error"])
        /\ EligibilityStatusOf(result[t].value) = "undefined"

(***************************************************************************)
(* CircuitBreakerManager.getStats and the event log.                       *)
(***************************************************************************)
\* How many events getStats returns: stats.events.slice(-10).
StatsEvents == 10

\* The last n elements of a sequence.
Last(events, n) ==
    IF Len(events) <= n THEN events
    ELSE SubSeq(events, Len(events) - n + 1, Len(events))

\* getStats(name): null without a breaker or a stats record of the name;
\* the events are those of the record the stats map holds.
GetStats(m, brs, name) ==
    IF m.breakers[name] = Undefined \/ m.stats[name] = Undefined THEN Null
    ELSE [name |-> name,
          state |-> IF brs[name].state = "open" THEN "open"
                    ELSE IF brs[name].state = "halfOpen" THEN "half-open"
                    ELSE "closed",
          config |-> m.stats[name].config,
          events |-> Last(m.stats[name].events, StatsEvents)]

\* The logged events breaker b emits in this step: a change of state, a
\* timeout or a rejection counted in the window.
Emits(b) ==
    {e \in LoggedEvents :
        \/ /\ breakers'[b].state # breakers[b].state
           /\ e = (IF breakers'[b].state = "closed" THEN "close"
                   ELSE breakers'[b].state)
        \/ /\ e = "timeout"
           /\ Stats(breakers'[b].window, "timeouts")
                > Stats(breakers[b].window, "timeouts")
        \/ /\ e = "reject"
           /\ Stats(breakers'[b].window, "rejects")
                > Stats(breakers[b].window, "rejects")}

\* C34: whenever a breaker made by createBreaker emits open, halfOpen, close,
\* timeout or reject, the manager's listener has the breaker's stats record
\* and completes without raising, nothing is left uncaught, and what
\* getStats returns afterwards ends with the emitted events (the last 10
\* of the log).
C34_ListenersLogEvents ==
    [][\A b \in Breakers :
          Emits(b) # {} =>
              /\ ~Raises(breakers[b])
              /\ ~breakers'[b].uncaught
              /\ LET before == GetStats(manager, breakers, b).events
                     after == GetStats(manager', breakers', b).events
                 IN  /\ Len(after) = Min(StatsEvents,
                                         Len(before) + Cardinality(Emits(b)))
                     /\ \A e \in Emits(b) :
                            \E i \in 1..Len(after) : after[i] = e]_vars

\* A failure has opened a breaker: the listener of 'open' had no stats
\* record, its TypeError was left uncaught, and getStats holds no event.
C34_Witness ==
    \E b \in Breakers :
        /\ breakers[b].state = "open" /\ breakers[b].resetAt # NoTimer
        /\ Raises(breakers[b]) /\ breakers[b].uncaught
        /\ manager.breakers[b] # Undefined
        /\ GetStats(manager, breakers, b).events = <<>>

(***************************************************************************)
(* The registry of CircuitBreakerManager under createBreaker: the three    *)
(* module-level breakers are registered when the module loads; `new        *)
(* ApiClient` with a circuitBreakerName calls createBreaker with the       *)
(* client's timeout, errorThresholdPercentage and resetTimeout.  The       *)
(* program never calls shutdown().                                         *)
(***************************************************************************)
\* What ApiClient.constructor and other callers pass: createOptumAuthClient,
\* createOptumClient, a client with another timeout, and a partial record.
CreateOptions ==
    {Options(15000, 60, 30000), Options(30000, 50, 60000),
     Options(10000, 50, 60000), [timeout |-> 45000]}

\* createBreaker(name, options) called by task t; the result is the
\* instance returned.
CreateBreakerCall(t, name, options) ==
    LET m == CreateBreaker(manager, name, options)
        l == [StartLog(now) EXCEPT !.calledWith = <<name, options>>]
    IN  /\ Running
        /\ ~Pending
        /\ Takes(t) /\ ops < MaxOps
        /\ ops' = ops + 1
        /\ op' = [op EXCEPT ![t] = "createBreaker"]
        /\ manager' = m
        /\ Apply(t, Finish(t, Returned(m.breakers[name].id), l))
        /\ UNCHANGED <<clockVars, storeVars, authInitialized, serviceInitialized,
                       clients, req, pendingToken, issued>>

NextManager ==
    \E t \in Tasks, name \in BreakerNames, options \in CreateOptions :
        CreateBreakerCall(t, name, options)

SpecManager == Init /\ [][NextManager]_vars

\* The names the registry holds a breaker for.
Registered(m) == {n \in BreakerNames : m.breakers[n] # Undefined}

\* Task t calls createBreaker in this step.
CreatesBreaker(t) ==
    Takes(t) /\ pc'[t] = "done" /\ op'[t] = "createBreaker" /\ ops' = ops + 1

\* C35: the registry holds at most one breaker per name: createBreaker for a
\* registered name returns the existing instance and changes neither its
\* configuration nor anything else in the registry, whatever the options;
\* for a new name it returns a new instance with the options over the
\* defaults; the breakers map and the stats map have the same keys, and
\* the module-level breakers keep the configuration they were made with.
C35_OneBreakerPerName ==
    /\ [](/\ \A n \in BreakerNames :
                 manager.breakers[n] = Undefined <=> manager.stats[n] = Undefined
          /\ \A n1, n2 \in Registered(manager) :
                 manager.breakers[n1].id = manager.breakers[n2].id => n1 = n2
          /\ \A b \in Breakers :
                 /\ b \in Registered(manager)
                 /\ manager.breakers[b].config.timeout = BreakerTimeout(b)
                 /\ manager.breakers[b].config.errorThresholdPercentage
                        = ErrorThresholdPercentage(b)
                 /\ manager.breakers[b].config.resetTimeout = ResetTimeout(b))
    /\ [][\A t \in Tasks :
             CreatesBreaker(t) =>
                 LET name == log'[t].calledWith[1]
                     options == log'[t].calledWith[2]
                 IN  /\ result'[t] = Returned(manager'.breakers[name].id)
                     /\ name \in Registered(manager) => manager' = manager
                     /\ name \notin Registered(manager) =>
                            /\ \A n \in Registered(manager) :
                                   /\ manager'.breakers[n] = manager.breakers[n]
                                   /\ manager'.breakers[n].id
                                          # manager'.breakers[name].id
                            /\ manager'.breakers[name].config = Config(options)
                            /\ manager'.stats[name].config = Config(options)]_vars

\* createBreaker('optum-eligibility') with a timeout of 10 s returned the
\* module-level breaker, whose timeout is still 30 s.
C35_Witness ==
    \E t \in Tasks :
        /\ pc[t] = "done" /\ op[t] = "createBreaker"
        /\ log[t].calledWith = <<EligibilityBreaker, Options(10000, 50, 60000)>>
        /\ result[t] = Returned(ModuleLoad.breakers[EligibilityBreaker].id)
        /\ manager.breakers[EligibilityBreaker].config.timeout = 30000
        /\ manager.stats[EligibilityBreaker].config.timeout = 30000

(***************************************************************************)
(* Delivery and the retry loop.  The breaker wraps the whole of            *)
(* retryHandler.execute; the promise of fire is settled when the loop      *)
(* returns or throws, or by the call's timer.                              *)
(***************************************************************************)
\* The caller of the call of task t has its outcome.
Delivered(t) == call[t].settled

\* Task t neither takes a new operation nor calls breaker.fire in this
\* step: its call record and its log stay those of the call it made last.
SameCall(t) ==
    /\ ~(pc[t] \in {"idle", "done"} /\ ops' # ops)
    /\ ~(pc[t] \notin WaitingPcs /\ pc'[t] \in WaitingPcs)

Connecting == {t \in Tasks : pc[t] = "init_wait"}

\* C37: for every interleaving of concurrent first requests initialization
\* runs at most once: at most one store client is ever created and at most
\* one connect is under way.
C37_InitializesOnce == clients <= 1 /\ Cardinality(Connecting) <= 1

\* Two first getAccessToken calls have each created a client and connected
\* it: the manager is initialized, two clients exist, one is retained.
C37_Witness ==
    /\ clients = 2 /\ authInitialized /\ Connecting = {}
    /\ \A t \in Tasks : op[t] = "getAccessToken" /\ log[t].connects = 1

(***************************************************************************)
(* The cache under requests that agree or differ in the fields of the key, *)
(* from two callers at a time.                                             *)
(***************************************************************************)
NextFingerprint ==
    \/ CacheInitialize
    \/ \E t \in Tasks, r \in FingerprintRequests : StartGetEligibilityResponse(t, r)
    \/ \E t \in Tasks : GetEligibilityResponseDone(t)
    \/ \E t \in Tasks, r \in FingerprintRequests :
          StartSetEligibilityResponse(t, r, UpstreamResponse, NoTtl)
    \/ \E t \in Tasks : SetEligibilityResponseDone(t)

SpecFingerprint == Init /\ [][NextFingerprint]_vars

\* The codes of a list, as a set.
CodeSet(codes) == {codes[i] : i \in DOMAIN codes}

\* The codes of the requests: those of ServiceTypes named by any of them.
RequestCodes == ServiceTypes

\* The two lists hold the same codes the same number of times.
SameCodeList(a, b) ==
    \A c \in RequestCodes : Count(a, c) = Count(b, c)

\* The requests agree on member id, NPI and beginning date of service.
AgreeButCodes(r1, r2) ==
    /\ r1.subscriber.memberId = r2.subscriber.memberId
    /\ r1.provider.npi = r2.provider.npi
    /\ r1.encounter.beginningDateOfService = r2.encounter.beginningDateOfService

\* ... and on the set of service-type codes.
AgreeOnSet(r1, r2) ==
    /\ AgreeButCodes(r1, r2)
    /\ CodeSet(r1.encounter.serviceTypeCodes.items)
          = CodeSet(r2.encounter.serviceTypeCodes.items)

\* ... and on the codes with their multiplicities, in any order.
AgreeOnList(r1, r2) ==
    /\ AgreeButCodes(r1, r2)
    /\ SameCodeList(r1.encounter.serviceTypeCodes.items,
                    r2.encounter.serviceTypeCodes.items)

\* The write of t's setEligibilityResponse reaches the store in this step.
WriteStored(t) == pc[t] = "cache_write" /\ pc'[t] = "done" /\ redisUp

\* C38 as stated: requests that agree on member id, NPI, the set of
\* service-type codes and the beginning date of service have the same key,
\* whatever their other fields.
C38_SameSetSameKey ==
    \A t, u \in Tasks :
        (pc[t] # "idle" /\ pc[u] # "idle" /\ AgreeOnSet(req[t], req[u]))
            => GenerateEligibilityKey(req[t]) = GenerateEligibilityKey(req[u])

\* C38: requests that agree on member id, NPI, beginning date of service and
\* the service-type codes with their multiplicities, in any order, have the
\* same key whatever their other fields: a response stored for one is
\* stored under the key of every such request, and a lookup for one
\* returns what the store holds under the key of every such request.
C38_SameFieldsSameEntry ==
    /\ [](\A t, u \in Tasks :
            (pc[t] # "idle" /\ pc[u] # "idle" /\ AgreeOnList(req[t], req[u]))
                => GenerateEligibilityKey(req[t]) = GenerateEligibilityKey(req[u]))
    /\ [][\A t \in Tasks, r \in FingerprintRequests :
             AgreeOnList(r, req[t]) =>
                 LET k == GenerateEligibilityKey(r)
                 IN  /\ WriteStored(t) =>
                            /\ cache'[k].present
                            /\ cache'[k].value = cacheWrite[t].value
                     /\ ReadComesBack(t) =>
                            result'[t] = GetResult(redisUp, k,
                                                   StoredValue(cache[k], now), now)]_vars

\* The response one caller stored for a request was returned to another
\* whose request differs in trading partner id and control number.
C38_Witness ==
    \E t, u \in Tasks :
        /\ op[t] = "setEligibilityResponse" /\ pc[t] = "done" /\ cacheWrite[t].written
        /\ op[u] = "getEligibilityResponse" /\ pc[u] = "done"
        /\ AgreeOnList(req[t], req[u])
        /\ req[t].tradingPartnerServiceId # req[u].tradingPartnerServiceId
        /\ req[t].controlNumber # req[u].controlNumber
        /\ result[u].ok /\ result[u].value # Null
        /\ result[u].value.response = cacheWrite[t].value
        /\ result[u].value.cacheMetadata.key = cacheWrite[t].key

(***************************************************************************)
(* The token store failing under getAccessToken once connected:            *)
(* getCachedToken and cacheToken catch what the client throws.             *)
(***************************************************************************)
\* Task t's read comes back in this step, the write of the token its
\* earlier call acquired having failed.
ReadsAfterFailedWrite(t) ==
    ReadsToken(t) /\ Obtained(t).present /\ ~pendingToken[t].written

\* A read that fails or finds no token makes getAccessToken call
\* refreshToken; a failed write leaves the store as it was and
\* getAccessToken returns the token just acquired.
FailOpen ==
    \A t \in Tasks :
        /\ ReadsToken(t) /\ (~redisUp \/ ~StoredToken(tokenStore, now).present)
              => Acquires(t)
        /\ WritesToken(t) /\ ~redisUp /\ op[t] = "getAccessToken" =>
              /\ pc'[t] = "done"
              /\ result'[t] = Returned(pendingToken[t].data.token)
              /\ tokenStore' = tokenStore

\* C39 as stated: the store is fail-open, and the call that follows a
\* failed write performs another acquisition.
C39_AcquiresAfterFailedWrite ==
    [][/\ FailOpen
       /\ \A t \in Tasks : ReadsAfterFailedWrite(t) => Acquires(t)]_vars

\* C39: once connected, a read that fails or finds no token leads to an
\* acquisition call, and a failed write still returns the new token; the
\* call that follows a failed write acquires again unless its read
\* succeeds and gives a token stored earlier that is outside the refresh
\* buffer, which it returns.
C39_StoreFailOpen ==
    [][/\ FailOpen
       /\ \A t \in Tasks :
             ReadsAfterFailedWrite(t) =>
                 IF redisUp /\ HoldsFresh(tokenStore, now)
                 THEN /\ HitWith(t, tokenStore.data.token)
                      /\ tokenStore.data.token # Obtained(t).token
                 ELSE Acquires(t)]_vars

\* The store was down for one call, which acquired a token it could not
\* write; the next call has returned the token stored before that.
C39_Witness ==
    \E t \in Tasks :
        /\ pc[t] = "done" /\ op[t] = "getAccessToken"
        /\ Obtained(t).present /\ ~pendingToken[t].written
        /\ log[t].acquisitions = 0 /\ log[t].storeReads = 1
        /\ result[t] = Returned(tokenStore.data.token)
        /\ tokenStore.data.token < Obtained(t).token

(***************************************************************************)
(* calculateDelay over every retry-after header.  axios gives the header   *)
(* as a string: a number of seconds, an HTTP date, or nothing.  A JS       *)
(* number is a value or NaN.                                               *)
(***************************************************************************)
Number(v) == [nan |-> FALSE, value |-> v]
NaN == [nan |-> TRUE, value |-> 0]

\* error.response.headers['retry-after']
NoHeader == [kind |-> "absent", seconds |-> 0]
SecondsHeader(n) == [kind |-> "seconds", seconds |-> n]
DateHeader == [kind |-> "date", seconds |-> 0]
EmptyHeader == [kind |-> "empty", seconds |-> 0]

\* `if (retryAfter)`: undefined and '' are falsy, '0' is not.
TruthyHeader(header) == header.kind \in {"seconds", "date"}

\* parseInt(retryAfter): the leading integer, NaN without one.
ParseInt(header) == IF header.kind = "seconds" THEN Number(header.seconds) ELSE NaN

\* x * 1000 and Math.min(x, y): NaN when an operand is.
Times(x, k) == IF x.nan THEN NaN ELSE Number(x.value * k)
MathMin(x, y) == IF x.nan \/ y.nan THEN NaN ELSE Number(Min(x.value, y.value))

\* calculateDelay(attempt, error) for an error with the given header.
CalculateDelayNumber(h, attempt, error, header, random) ==
    IF error.status = 429 /\ TruthyHeader(header)
    THEN MathMin(Times(ParseInt(header), 1000), Number(h.maxDelay))
    ELSE Number(CalculateDelay(h, attempt, error, 0, random))

\* sleep(ms): setTimeout takes a delay that is NaN or below 1 as 1 ms.
Sleep(ms) == IF ms.nan \/ ms.value < 1 THEN 1 ELSE ms.value

DelayHandlers == {defaultRetryHandler, authRetryHandler, rateLimitRetryHandler}
DelayErrors == {HttpError(429), HttpError(503), NetworkError("ECONNRESET")}
DelayHeaders ==
    {NoHeader, EmptyHeader, DateHeader}
    \cup {SecondsHeader(n) : n \in {0 - 5, 0, 2, 120}}

\* The catch of execute from calculateDelay on: the delay is computed and
\* slept; the result is the delay and the time the sleep takes.
CalculateDelayCall(t, h, attempt, error, header, random) ==
    LET delay == CalculateDelayNumber(h, attempt, error, header, random)
        l == [StartLog(now) EXCEPT !.calledWith = <<h, attempt, error, header>>]
    IN  /\ Running
        /\ ~Pending
        /\ Takes(t) /\ ops < MaxOps
        /\ attempt < h.maxRetries
        /\ ops' = ops + 1
        /\ op' = [op EXCEPT ![t] = "calculateDelay"]
        /\ Apply(t, Finish(t, Returned([delay |-> delay, slept |-> Sleep(delay)]), l))
        /\ UNCHANGED <<clockVars, storeVars, initVars, req, pendingToken, issued>>

NextDelay ==
    \E t \in Tasks, h \in DelayHandlers, error \in DelayErrors,
       header \in DelayHeaders, random \in RandomPercents :
        \E attempt \in 0..(h.maxRetries - 1) :
            CalculateDelayCall(t, h, attempt, error, header, random)

SpecDelay == Init /\ [][NextDelay]_vars

\* calculateDelay has returned to task t.
Delayed(t) == op[t] = "calculateDelay" /\ pc[t] = "done"

\* C40: for every attempt index and every failure, a 429 with a
\* retry-after of zero, a negative number or no number of seconds
\* included, calculateDelay returns a number d with 0 <= d <= maxDelay, and
\* the loop sleeps at least d before the next attempt.
C40_DelayWithinBounds ==
    \A t \in Tasks :
        Delayed(t) =>
            LET d == result[t].value.delay
                h == log[t].calledWith[1]
            IN  /\ ~d.nan
                /\ 0 <= d.value /\ d.value <= h.maxDelay
                /\ result[t].value.slept >= d.value

\* A 429 came with an HTTP date as retry-after: calculateDelay has returned
\* NaN and the loop has slept 1 ms.
C40_Witness ==
    \E t \in Tasks :
        /\ Delayed(t)
        /\ log[t].calledWith[3] = HttpError(429)
        /\ log[t].calledWith[4] = DateHeader
        /\ result[t].value.delay = NaN
        /\ result[t].value.slept = 1
====
